---- MODULE Spec2Model ----
(***************************************************************************)
(* The crawl scheduler of docminer (runCrawlWithWorkers), its worker pool, *)
(* the two worker kinds, the autoscaler and the per-origin rate limiter.   *)
(*                                                                         *)
(* The scheduler is single threaded: every handler below is one atomic     *)
(* action.  Workers run in parallel and talk to the scheduler through one  *)
(* FIFO channel per worker and direction (inbox: scheduler -> worker,      *)
(* outbox: worker -> scheduler).                                           *)
(*                                                                         *)
(* Messages that change no scheduler state are left out of the channels:   *)
(* "ready" (handleCrawlMessage returns at once) and "progress" (it only    *)
(* feeds jobTimings, from which the autoscaler metrics are averaged; the   *)
(* metrics are inputs of the autoscaler tick here).                        *)
(***************************************************************************)
EXTENDS Integers, Sequences, FiniteSets, TLC

\* ------------------------------------------------------------------ bounds
NPages == 8            \* pages of the crawled site, 1..NPages; page 1 is the seed
MaxSlots == 4          \* worker ids that can be alive at once
MaxClock == 2          \* the clock runs freely up to here (and further while a worker waits)
MaxMaxPages == 3       \* options.maxPages is drawn from 1..MaxMaxPages
MaxMaxDepth == 2       \* options.maxDepth is drawn from 0..MaxMaxDepth
MaxConcurrency == 3    \* options.concurrency is drawn from 1..MaxConcurrency
MaxScaleDowns == 1     \* autoscaler ticks of one run that stop workers
MaxTimeouts == 1       \* inactivity timers that fire in one run
MaxDelay == 2          \* the rate limiter alone: delayMs is drawn from 1..MaxDelay
MaxRateClock == 3      \* the rate limiter alone: clock values are drawn from 0..MaxRateClock
MaxCalls == 4          \* the rate limiter alone: calls of computeWaitUntil
MaxWorkerJobs == 2     \* the workers alone: jobs their owner assigns
MaxRetries == 3        \* fetchWithRetries alone: options.retries is drawn from 0..MaxRetries

\* ------------------------------------------------------- program constants
MIN_TOTAL_WORKERS == 2
MIN_WORKERS_PER_KIND == 1
AUTOSCALE_TARGET_DRAIN_MS == 6000
MAX_SPAWN_PER_TICK == 5
MAX_STOP_PER_TICK == 5
DEFAULT_MARKDOWN_ACTIVE_MS == 200
DEFAULT_HYBRID_ACTIVE_MS == 600

Pages == 1..NPages
Slots == 1..MaxSlots
Origins == {"site", "other"}

\* F applied to the value of x (x is evaluated once).
Then(x, F(_)) == CHOOSE r \in {F(v) : v \in {x}} : TRUE

Min(a, b) == IF a <= b THEN a ELSE b
Max(a, b) == IF a >= b THEN a ELSE b

\* A URL is a page of the site plus a marker for a hash or query part.
Url(p, f) == [page |-> p, frag |-> f]

\* A normalization that keeps hash and search.
normalizeKeepAll(u) == u

\* utils.normalizeForQueue: the URL with hash and search cleared.
normalizeForQueue(u) == [u EXCEPT !.frag = 0]

\* new URL(url).origin: the pages of the crawled site are on the seed's origin
\* (extractLinks* keep only links of scopeOrigin); any other URL is on another.
OriginOf(u) == IF u.page \in Pages THEN "site" ELSE "other"

\* new URL(url).pathname, as a sequence of characters: page 1 is "/1", page p
\* is "/1/p".  Hash and query are no part of the pathname.
PathOf(u) == IF u.page = 1 THEN <<1>> ELSE <<1, u.page>>

startsWith(s, prefix) ==
    /\ Len(prefix) <= Len(s)
    /\ SubSeq(s, 1, Len(prefix)) = prefix

\* robots.createEvaluator: longest matching Allow against longest matching
\* Disallow; nothing matches: allowed; tie: allowed.
LongestMatch(rules, pathname) ==
    LET lens == {Len(r) : r \in {x \in rules : startsWith(pathname, x)}}
    IN IF lens = {} THEN 0 ELSE CHOOSE n \in lens : \A m \in lens : m <= n

\* An evaluator that forbids a path on a tie.
isAllowedNoTie(policy, pathname) ==
    LongestMatch(policy.allow, pathname) > LongestMatch(policy.disallow, pathname)
        \/ LongestMatch(policy.disallow, pathname) = 0

isAllowed(policy, pathname) ==
    LET longestAllow == LongestMatch(policy.allow, pathname)
        longestDisallow == LongestMatch(policy.disallow, pathname)
    IN IF longestAllow = 0 /\ longestDisallow = 0
       THEN TRUE
       ELSE longestAllow >= longestDisallow

\* The robots policies a run can load (buildAllowAllPolicy, or rules parsed
\* from robots.txt).
AllowAll == [allow |-> {}, disallow |-> {}, crawlDelayMs |-> 0]
NoPage2 == [allow |-> {}, disallow |-> {<<1, 2>>}, crawlDelayMs |-> 0]
NoPage3 == [allow |-> {<<1>>}, disallow |-> {<<1, 3>>}, crawlDelayMs |-> 1]
OnlyPage3 == [allow |-> {<<1, 3>>}, disallow |-> {<<1>>}, crawlDelayMs |-> 1]

RobotsPolicies == {AllowAll, NoPage2, NoPage3, OnlyPage3}

\* The sites: Links[p] is what extractLinks* returns for page p (same origin,
\* in scope, hash and query stripped, deduplicated, in document order).
FanSite == [p \in Pages |-> IF p = 1 THEN <<2, 3>> ELSE IF p = 2 THEN <<3, 4>> ELSE <<>>]
LoopSite == [p \in Pages |-> IF p = 1 THEN <<2>> ELSE IF p = 2 THEN <<1, 3>> ELSE <<2>>]

Sites == {FanSite, LoopSite}

\* A wider site: the seed links to four pages, the first of which links to
\* three more.  Only the pages of WithCompanion have a companion Markdown file.
WideSite ==
    [p \in Pages |-> IF p = 1 THEN <<2, 3, 4, 5>>
                     ELSE IF p = 2 THEN <<6, 7, 8>> ELSE <<>>]

WithCompanion == {1, 6, 7, 8}

\* ------------------------------------------------------------------- state
VARIABLES
    options,              \* CliOptions: maxPages, maxDepth, concurrency, delayMs
    site,                 \* the link graph of the crawled site
    robotsPolicy,         \* the loaded RobotsPolicy
    now,                  \* Date.now()
    markdownQueue,        \* QueueItem[]
    hybridQueue,          \* QueueItem[]
    jobMap,               \* the QueueItems of jobMap (keyed by jobId)
    knownUrls,            \* Set<string> of normalized URLs
    visited,              \* Set<string> of normalized URLs
    failures,             \* string[]: the URL of each failure line
    idleMarkdown,         \* Set<string>, in insertion order
    idleHybrid,           \* Set<string>, in insertion order
    nextAllowedByOrigin,  \* Map<string, number>; 0 where the map has no entry
    savedCount,
    inFlightCount,
    processedCount,       \* runScrapeWithWorkers: the URLs completed or failed
    isDone,
    nextJobId,            \* createJobId: the next fresh job id
    workers,              \* pool.workers: WorkerState per worker id
    stopResolvers,        \* the worker ids stopAll still waits for
    mainPc,               \* runCrawlWithWorkers: "running", "stopping", "finished"
    wk,                   \* each worker thread's own state
    inbox,                \* scheduler -> worker messages in transit
    outbox,               \* worker -> scheduler messages in transit
    hist                  \* history of the run (assignments, writes, drops)

vars == << options, site, robotsPolicy, now, markdownQueue, hybridQueue, jobMap,
           knownUrls, visited, failures, idleMarkdown, idleHybrid,
           nextAllowedByOrigin, savedCount, inFlightCount, processedCount,
           isDone, nextJobId, workers, stopResolvers, mainPc, wk, inbox, outbox,
           hist >>

configVars == << options, site, robotsPolicy >>

NoJob == [jobId |-> 0, url |-> Url(1, 0), depth |-> 0, canGoDeeper |-> FALSE,
          waitUntilMs |-> 0]

\* WorkerState of a worker id that is not in pool.workers.
NoWorker == [present |-> FALSE, kind |-> "markdown", idle |-> FALSE,
             stopping |-> FALSE, currentJobId |-> 0]

\* A worker thread that does not run (never spawned, or exited).
DeadThread == [phase |-> "exited", kind |-> "markdown", activeJob |-> NoJob,
               stage |-> "none", pendingRenderJob |-> NoJob, renderJob |-> NoJob,
               stopRequested |-> FALSE, inactivityTimer |-> FALSE, fetchAt |-> 0,
               attempt |-> 0, source |-> "pending", lastResponse |-> "none"]

\* A worker thread right after new Worker(...): its init message is in its inbox.
NewThread(kind) == [DeadThread EXCEPT !.phase = "new", !.kind = kind]

MainMsg(type, job, jobId) == [type |-> type, job |-> job, jobId |-> jobId]

WorkerMsg(type, job, links) ==
    [type |-> type, jobId |-> job.jobId, url |-> job.url, depth |-> job.depth,
     discoveredLinks |-> links]

\* Set<string>.add / .delete on an insertion-ordered set.
SetAdd(seq, x) == IF \E i \in 1..Len(seq) : seq[i] = x THEN seq ELSE Append(seq, x)
SetDelete(seq, x) == SelectSeq(seq, LAMBDA y : y # x)
SeqToSet(seq) == {seq[i] : i \in 1..Len(seq)}

maxTotalWorkers == Max(options.concurrency, MIN_TOTAL_WORKERS)

\* The scheduler's state as one record, so that a handler is a function from
\* the state before to the state after.
Sched ==
    [ markdownQueue |-> markdownQueue, hybridQueue |-> hybridQueue,
      jobMap |-> jobMap, knownUrls |-> knownUrls, visited |-> visited,
      failures |-> failures, idleMarkdown |-> idleMarkdown,
      idleHybrid |-> idleHybrid, nextAllowedByOrigin |-> nextAllowedByOrigin,
      savedCount |-> savedCount, inFlightCount |-> inFlightCount,
      processedCount |-> processedCount,
      isDone |-> isDone, nextJobId |-> nextJobId, workers |-> workers,
      stopResolvers |-> stopResolvers, inbox |-> inbox, hist |-> hist ]

\* ------------------------------------------------------------ rate limiter
\* computeWaitUntil, at clock value `clock`: the deadline it returns and the
\* map it leaves behind.
\* A rate limiter that hands out the clock and forgets the origin's last deadline.
computeWaitUntilNoSpacing(nextAllowed, url, delayMs, clock) ==
    [waitUntil |-> clock, nextAllowedByOrigin |-> nextAllowed]

computeWaitUntil(nextAllowed, url, delayMs, clock) ==
    IF delayMs <= 0
    THEN [waitUntil |-> clock, nextAllowedByOrigin |-> nextAllowed]
    ELSE LET origin == OriginOf(url)
             waitUntil == Max(clock, nextAllowed[origin])
         IN [waitUntil |-> waitUntil,
             nextAllowedByOrigin |->
                 [nextAllowed EXCEPT ![origin] = waitUntil + delayMs]]

\* runCrawlWithWorkers: effectiveDelay.
effectiveDelay == Max(options.delayMs, robotsPolicy.crawlDelayMs)

\* --------------------------------------------------------------- scheduler
getPendingCount(S) == Len(S.markdownQueue) + Len(S.hybridQueue)

\* worker.postMessage: a message to a thread that has exited goes nowhere.
postMessage(S, w, msg) ==
    IF wk[w].phase = "exited"
    THEN S
    ELSE [S EXCEPT !.inbox[w] = Append(@, msg)]

\* A worker id that has left pool.workers is skipped by dispatchIdle and
\* deleted by collectIdleIds wherever it is met in an idle set, so it is kept
\* out of the idle sets here (worker ids are reused).
markIdle(S, w) ==
    IF ~S.workers[w].present
    THEN S
    ELSE LET S1 == [S EXCEPT !.workers[w].idle = TRUE]
         IN IF S.workers[w].kind = "markdown"
            THEN [S1 EXCEPT !.idleMarkdown = SetAdd(@, w)]
            ELSE [S1 EXCEPT !.idleHybrid = SetAdd(@, w)]

\* A maybeFinish that takes empty queues for a drained crawl.
maybeFinishQueuesOnly(S) ==
    IF S.isDone
    THEN S
    ELSE IF S.savedCount >= options.maxPages
         THEN [S EXCEPT !.isDone = TRUE]
         ELSE IF /\ Len(S.markdownQueue) = 0
                 /\ Len(S.hybridQueue) = 0
              THEN [S EXCEPT !.isDone = TRUE]
              ELSE S

maybeFinish(S) ==
    IF S.isDone
    THEN S
    ELSE IF S.savedCount >= options.maxPages
         THEN [S EXCEPT !.isDone = TRUE]
         ELSE IF /\ S.inFlightCount <= 0
                 /\ Len(S.markdownQueue) = 0
                 /\ Len(S.hybridQueue) = 0
              THEN [S EXCEPT !.isDone = TRUE]
              ELSE S

\* A commit that leaves the worker in its idle set.
commitJobStaysIdle(S, w, next) ==
    LET rate == computeWaitUntil(S.nextAllowedByOrigin, next.url, effectiveDelay, now)
        payload == [jobId |-> next.jobId, url |-> next.url, depth |-> next.depth,
                    canGoDeeper |-> next.canGoDeeper,
                    waitUntilMs |-> rate.waitUntil]
        kind == S.workers[w].kind
        S1 == [S EXCEPT
                 !.workers[w].currentJobId = next.jobId,
                 !.nextAllowedByOrigin = rate.nextAllowedByOrigin,
                 !.inFlightCount = @ + 1,
                 !.hist.assignedMarkdown[next.url.page] =
                     IF kind = "markdown" THEN @ + 1 ELSE @,
                 !.hist.assignedHybrid[next.url.page] =
                     IF kind = "hybrid" THEN @ + 1 ELSE @,
                 !.hist.waitUntil[w] = rate.waitUntil]
    IN postMessage(S1, w, MainMsg("assign", payload, next.jobId))

\* The part of assignMarkdownWorker / assignHybridWorker that commits `next`
\* to worker w and posts the assign message.
commitJob(S, w, next) ==
    LET rate == computeWaitUntil(S.nextAllowedByOrigin, next.url, effectiveDelay, now)
        payload == [jobId |-> next.jobId, url |-> next.url, depth |-> next.depth,
                    canGoDeeper |-> next.canGoDeeper,
                    waitUntilMs |-> rate.waitUntil]
        kind == S.workers[w].kind
        S1 == [S EXCEPT
                 !.idleMarkdown = IF kind = "markdown" THEN SetDelete(@, w) ELSE @,
                 !.idleHybrid = IF kind = "hybrid" THEN SetDelete(@, w) ELSE @,
                 !.workers[w].idle = FALSE,
                 !.workers[w].currentJobId = next.jobId,
                 !.nextAllowedByOrigin = rate.nextAllowedByOrigin,
                 !.inFlightCount = @ + 1,
                 !.hist.assignedMarkdown[next.url.page] =
                     IF kind = "markdown" THEN @ + 1 ELSE @,
                 !.hist.assignedHybrid[next.url.page] =
                     IF kind = "hybrid" THEN @ + 1 ELSE @,
                 !.hist.waitUntil[w] = rate.waitUntil]
    IN postMessage(S1, w, MainMsg("assign", payload, next.jobId))

\* A robots drop that is booked as a failure.
dropBlockedAsFailure(S, next) ==
    maybeFinish([S EXCEPT !.jobMap = @ \ {next},
                          !.failures = Append(@, next.url),
                          !.hist.blocked = @ \cup {next.url.page}])

\* assignMarkdownWorker: the job at the head of the queue is blocked by
\* robots.txt.
dropBlocked(S, next) ==
    maybeFinish([S EXCEPT !.jobMap = @ \ {next},
                          !.hist.blocked = @ \cup {next.url.page}])

RECURSIVE assignMarkdownWorker(_, _)
assignMarkdownWorker(S, w) ==
    IF Len(S.markdownQueue) = 0
    THEN markIdle(S, w)
    ELSE LET next == Head(S.markdownQueue)
             normalized == normalizeForQueue(next.url)
             S1 == [S EXCEPT !.markdownQueue = Tail(@)]
         IN IF normalized \in S1.visited
            THEN assignMarkdownWorker(
                     maybeFinish([S1 EXCEPT !.jobMap = @ \ {next}]), w)
            ELSE LET S2 == [S1 EXCEPT !.visited = @ \cup {normalized}]
                 IN IF ~isAllowed(robotsPolicy, PathOf(next.url))
                    THEN assignMarkdownWorker(dropBlocked(S2, next), w)
                    ELSE commitJob(S2, w, next)

assignHybridWorker(S, w) ==
    IF Len(S.hybridQueue) = 0
    THEN markIdle(S, w)
    ELSE commitJob([S EXCEPT !.hybridQueue = Tail(@)], w, Head(S.hybridQueue))

\* assignNext without its page cap.
assignNextNoCap(S, w) ==
    IF S.workers[w].stopping
    THEN S
    ELSE IF S.workers[w].kind = "markdown"
         THEN assignMarkdownWorker(S, w)
         ELSE assignHybridWorker(S, w)

assignNext(S, w) ==
    IF S.workers[w].stopping
    THEN S
    ELSE IF S.savedCount + S.inFlightCount >= options.maxPages
         THEN markIdle(S, w)
         ELSE IF S.workers[w].kind = "markdown"
              THEN assignMarkdownWorker(S, w)
              ELSE assignHybridWorker(S, w)

\* dispatchIdle's two loops run over Array.from(idleSet): a snapshot.
RECURSIVE dispatchLoop(_, _)
dispatchLoop(S, ids) ==
    IF Len(ids) = 0
    THEN S
    ELSE dispatchLoop(IF S.workers[Head(ids)].present
                      THEN assignNext(S, Head(ids))
                      ELSE S,
                      Tail(ids))

dispatchIdle(S) ==
    LET S1 == dispatchLoop(S, S.idleMarkdown)
    IN dispatchLoop(S1, S1.idleHybrid)

\* A QueueItem that may always go deeper.
newJobAlwaysDeeper(S, link, parentDepth) ==
    [jobId |-> S.nextJobId, url |-> link, depth |-> parentDepth + 1,
     canGoDeeper |-> TRUE]

\* enqueueLinks: the QueueItem built for a new link.
newJob(S, link, parentDepth) ==
    LET nextDepth == parentDepth + 1
    IN [jobId |-> S.nextJobId, url |-> link, depth |-> nextDepth,
        canGoDeeper |-> nextDepth < options.maxDepth]

\* A new job that is put into hybridQueue.
queueNewJobHybrid(S, job) ==
    [S EXCEPT !.jobMap = @ \cup {job}, !.hybridQueue = Append(@, job)]

\* enqueueLinks: jobMap.set(jobId, job); markdownQueue.push(job).
queueNewJob(S, job) ==
    [S EXCEPT !.jobMap = @ \cup {job}, !.markdownQueue = Append(@, job)]

RECURSIVE enqueueLoop(_, _, _, _)
enqueueLoop(S, links, parentDepth, added) ==
    IF Len(links) = 0 \/ S.savedCount + getPendingCount(S) >= options.maxPages
    THEN [S |-> S, added |-> added]
    ELSE LET link == Head(links)
             normalized == normalizeForQueue(link)
         IN IF normalized \in S.visited \/ normalized \in S.knownUrls
            THEN enqueueLoop(S, Tail(links), parentDepth, added)
            ELSE LET job == newJob(S, link, parentDepth)
                 IN enqueueLoop(queueNewJob([S EXCEPT
                                                !.knownUrls = @ \cup {normalized},
                                                !.nextJobId = @ + 1],
                                            job),
                                Tail(links), parentDepth, added + 1)

enqueueLinks(S, links, parentDepth) ==
    LET r == enqueueLoop(S, links, parentDepth, 0)
    IN IF r.added > 0 THEN dispatchIdle(r.S) ELSE r.S

\* state.currentJobId = null (the WorkerState object of a worker that has left
\* the pool is no longer looked at).
clearCurrentJob(S, w) ==
    IF S.workers[w].present
    THEN [S EXCEPT !.workers[w].currentJobId = 0, !.hist.waitUntil[w] = 0]
    ELSE S

jobOfId(S, jobId) == {j \in S.jobMap : j.jobId = jobId}

handleCompleted(S, w, message) ==
    LET S1 == clearCurrentJob([S EXCEPT !.inFlightCount = @ - 1], w)
        S2 == [S1 EXCEPT !.jobMap = @ \ jobOfId(S1, message.jobId),
                         !.savedCount = @ + 1]
    IN maybeFinish(enqueueLinks(S2, message.discoveredLinks, message.depth))

\* A handler that queues the failed job once more.
handleFailedRetry(S, w, message) ==
    LET S1 == clearCurrentJob([S EXCEPT !.inFlightCount = @ - 1], w)
        job == jobOfId(S1, message.jobId)
    IN maybeFinish([S1 EXCEPT !.failures = Append(@, message.url),
                              !.markdownQueue =
                                  IF job # {}
                                  THEN Append(@, CHOOSE j \in job : TRUE)
                                  ELSE @])

\* handleFailed without its call of maybeFinish.
handleFailedNoFinish(S, w, message) ==
    LET S1 == clearCurrentJob([S EXCEPT !.inFlightCount = @ - 1], w)
    IN [S1 EXCEPT !.jobMap = @ \ jobOfId(S1, message.jobId),
                  !.failures = Append(@, message.url)]

handleFailed(S, w, message) ==
    LET S1 == clearCurrentJob([S EXCEPT !.inFlightCount = @ - 1], w)
    IN maybeFinish([S1 EXCEPT !.jobMap = @ \ jobOfId(S1, message.jobId),
                              !.failures = Append(@, message.url)])

\* A handler that puts the job at the head of hybridQueue.
handleMarkdownUnavailableUnshift(S, w, message) ==
    LET S1 == clearCurrentJob([S EXCEPT !.inFlightCount = @ - 1,
                                        !.hist.unavailable = @ + 1,
                                        !.hist.fellBack = @ \cup {message.url.page}], w)
        job == jobOfId(S1, message.jobId)
    IN IF job # {}
       THEN maybeFinish(dispatchIdle(
                [S1 EXCEPT !.hybridQueue = << CHOOSE j \in job : TRUE >> \o @]))
       ELSE maybeFinish(S1)

handleMarkdownUnavailable(S, w, message) ==
    LET S1 == clearCurrentJob([S EXCEPT !.inFlightCount = @ - 1,
                                        !.hist.unavailable = @ + 1,
                                        !.hist.fellBack = @ \cup {message.url.page}], w)
        job == jobOfId(S1, message.jobId)
    IN IF job # {}
       THEN maybeFinish(dispatchIdle(
                [S1 EXCEPT !.hybridQueue = Append(@, CHOOSE j \in job : TRUE)]))
       ELSE maybeFinish(S1)

\* A handler that takes the job off the worker before it asks for the render.
handleHtmlInsufficientRelease(S, w, message) ==
    postMessage(clearCurrentJob([S EXCEPT !.inFlightCount = @ - 1], w),
                w, MainMsg("renderWithPlaywright", NoJob, message.jobId))

handleHtmlInsufficient(S, w, message) ==
    postMessage(S, w, MainMsg("renderWithPlaywright", NoJob, message.jobId))

\* A handler that settles the stop it is awaited for and keeps the worker in
\* the pool.
handleStoppedKeep(S, w) == [S EXCEPT !.stopResolvers = @ \ {w}]

\* A handler that puts the job the worker held back into markdownQueue.
handleStoppedRequeue(S, w) ==
    IF ~S.workers[w].present
    THEN S
    ELSE [S EXCEPT !.workers[w] = NoWorker,
                   !.stopResolvers = @ \ {w},
                   !.idleMarkdown = SetDelete(@, w),
                   !.idleHybrid = SetDelete(@, w),
                   !.hist.waitUntil[w] = 0,
                   !.markdownQueue =
                       IF jobOfId(S, S.workers[w].currentJobId) # {}
                       THEN Append(@, CHOOSE j \in jobOfId(S, S.workers[w].currentJobId) : TRUE)
                       ELSE @]

\* createWorkerPool.handleStopped (the worker's "stopped" message, or its
\* close or error event).
handleStopped(S, w) ==
    IF ~S.workers[w].present
    THEN S
    ELSE [S EXCEPT !.workers[w] = NoWorker,
                   !.stopResolvers = @ \ {w},
                   !.idleMarkdown = SetDelete(@, w),
                   !.idleHybrid = SetDelete(@, w),
                   !.hist.waitUntil[w] = 0]

\* The "message" listener of spawnWorker, then handleCrawlMessage.
handleCrawlMessage(S, w, message) ==
    CASE message.type = "stopped" -> handleStopped(S, w)
      [] message.type = "requestTarget" -> assignNext(S, w)
      [] message.type = "completed" -> handleCompleted(S, w, message)
      [] message.type = "failed" -> handleFailed(S, w, message)
      [] message.type = "markdownUnavailable" ->
             handleMarkdownUnavailable(S, w, message)
      [] message.type = "htmlInsufficient" ->
             handleHtmlInsufficient(S, w, message)
      [] OTHER -> S

\* pool.stopAll, up to its await.
RECURSIVE stopAllLoop(_, _)
stopAllLoop(S, ids) ==
    IF ids = {}
    THEN S
    ELSE LET w == CHOOSE x \in ids : \A y \in ids : x <= y
         IN stopAllLoop(
                postMessage([S EXCEPT !.stopResolvers = @ \cup {w},
                                      !.workers[w].stopping = TRUE],
                            w, MainMsg("stop", NoJob, 0)),
                ids \ {w})

stopAll(S) == stopAllLoop(S, {w \in Slots : S.workers[w].present})

\* ---------------------------------------------------------------- the pool
\* The worker ids spawnWorker can hand out: crypto.randomUUID() never repeats
\* an id, so an id is taken again only when nothing of its former worker is
\* left (thread exited, out of the pool, both channels empty).
FreeSlots(S) ==
    {w \in Slots : /\ ~S.workers[w].present
                   /\ wk[w].phase = "exited"
                   /\ S.inbox[w] = << >>
                   /\ outbox[w] = << >>}

\* createWorkerPool.spawnWorker; ok is FALSE when no worker id is left.
spawnWorker(S, kind) ==
    IF FreeSlots(S) = {}
    THEN [S |-> S, ok |-> FALSE]
    ELSE LET id == CHOOSE x \in FreeSlots(S) : \A y \in FreeSlots(S) : x <= y
         IN [S |-> [S EXCEPT
                      !.workers[id] = [present |-> TRUE, kind |-> kind,
                                       idle |-> FALSE, stopping |-> FALSE,
                                       currentJobId |-> 0],
                      !.inbox[id] = << MainMsg("init", NoJob, 0) >>],
             ok |-> TRUE]

\* createWorkerPool.stopWorker
stopWorker(S, w) ==
    IF ~S.workers[w].present \/ S.workers[w].stopping
    THEN S
    ELSE postMessage([S EXCEPT !.workers[w].stopping = TRUE],
                     w, MainMsg("stop", NoJob, 0))

\* ----------------------------------------------------------- the autoscaler
clamp(value, min, max) == Min(max, Max(min, value))

\* The metrics a tick can read: the EWMA averages depend on measured
\* durations, so they are inputs.  rate is markdownUnavailableRate as a
\* fraction.
DefaultMetrics ==
    [markdownActiveMs |-> DEFAULT_MARKDOWN_ACTIVE_MS,
     hybridActiveMs |-> DEFAULT_HYBRID_ACTIVE_MS,
     rate |-> [num |-> 1, den |-> 4]]

MetricsChoices ==
    { DefaultMetrics,
      [markdownActiveMs |-> 20000, hybridActiveMs |-> 600,
       rate |-> [num |-> 0, den |-> 1]] }

getPoolCounts(S) ==
    LET of(kind) == {w \in Slots : S.workers[w].present /\ S.workers[w].kind = kind}
        busy(kind) == {w \in of(kind) : S.workers[w].currentJobId # 0}
    IN [markdown |-> Cardinality(of("markdown")),
        hybrid |-> Cardinality(of("hybrid")),
        inFlightMarkdown |-> Cardinality(busy("markdown")),
        inFlightHybrid |-> Cardinality(busy("hybrid"))]

\* collectIdleIds: the ids it returns; it deletes every other id from the
\* idle set.
collectIdleIds(S, idleSet) ==
    SelectSeq(idleSet, LAMBDA id : /\ S.workers[id].present
                                   /\ S.workers[id].idle
                                   /\ ~S.workers[id].stopping)

stopIdleWorker(S, w, kind) ==
    stopWorker(IF kind = "markdown"
               THEN [S EXCEPT !.idleMarkdown = SetDelete(@, w)]
               ELSE [S EXCEPT !.idleHybrid = SetDelete(@, w)],
               w)

\* A computeTargets whose markdown share may take every worker.
computeTargetsAllMarkdown(pending, counts, metrics, maxTotal) ==
    LET pendingTotal == pending.pendingMarkdown + pending.pendingHybrid
        inFlightTotal == counts.inFlightMarkdown + counts.inFlightHybrid
        hasWork == pendingTotal + inFlightTotal > 0
        den == metrics.rate.den
        rateNum == clamp(metrics.rate.num, 0, den)
        safeMarkdownMs == Max(1, metrics.markdownActiveMs)
        safeHybridMs == Max(1, metrics.hybridActiveMs)
        markdownDemand == pending.pendingMarkdown + counts.inFlightMarkdown
        hybridDemandD == (pending.pendingHybrid + counts.inFlightHybrid) * den
                         + markdownDemand * rateNum
        markdownWorkD == markdownDemand * safeMarkdownMs * den
        hybridWorkD == hybridDemandD * safeHybridMs
        totalWorkD == markdownWorkD + hybridWorkD
        drainD == AUTOSCALE_TARGET_DRAIN_MS * den
        desiredTotal ==
            IF hasWork
            THEN clamp((totalWorkD + drainD - 1) \div drainD,
                       MIN_TOTAL_WORKERS, maxTotal)
            ELSE MIN_TOTAL_WORKERS
        desiredMarkdown ==
            IF totalWorkD > 0
            THEN clamp((2 * desiredTotal * markdownWorkD + totalWorkD)
                           \div (2 * totalWorkD),
                       MIN_WORKERS_PER_KIND, desiredTotal)
            ELSE clamp((desiredTotal + 1) \div 2,
                       MIN_WORKERS_PER_KIND, desiredTotal)
        desiredHybrid == Max(MIN_WORKERS_PER_KIND, desiredTotal - desiredMarkdown)
    IN [desiredTotal |-> desiredTotal, desiredMarkdown |-> desiredMarkdown,
        desiredHybrid |-> desiredHybrid]

\* computeTargets, in exact arithmetic: every quantity in ms is carried
\* multiplied by rate.den.
computeTargets(pending, counts, metrics, maxTotal) ==
    LET pendingTotal == pending.pendingMarkdown + pending.pendingHybrid
        inFlightTotal == counts.inFlightMarkdown + counts.inFlightHybrid
        hasWork == pendingTotal + inFlightTotal > 0
        den == metrics.rate.den
        rateNum == clamp(metrics.rate.num, 0, den)
        safeMarkdownMs == Max(1, metrics.markdownActiveMs)
        safeHybridMs == Max(1, metrics.hybridActiveMs)
        markdownDemand == pending.pendingMarkdown + counts.inFlightMarkdown
        hybridDemandD == (pending.pendingHybrid + counts.inFlightHybrid) * den
                         + markdownDemand * rateNum
        markdownWorkD == markdownDemand * safeMarkdownMs * den
        hybridWorkD == hybridDemandD * safeHybridMs
        totalWorkD == markdownWorkD + hybridWorkD
        drainD == AUTOSCALE_TARGET_DRAIN_MS * den
        desiredTotal ==
            IF hasWork
            THEN clamp((totalWorkD + drainD - 1) \div drainD,
                       MIN_TOTAL_WORKERS, maxTotal)
            ELSE MIN_TOTAL_WORKERS
        desiredMarkdown ==
            IF totalWorkD > 0
            THEN clamp((2 * desiredTotal * markdownWorkD + totalWorkD)
                           \div (2 * totalWorkD),
                       MIN_WORKERS_PER_KIND, desiredTotal - MIN_WORKERS_PER_KIND)
            ELSE clamp((desiredTotal + 1) \div 2,
                       MIN_WORKERS_PER_KIND, desiredTotal - MIN_WORKERS_PER_KIND)
        desiredHybrid == Max(MIN_WORKERS_PER_KIND, desiredTotal - desiredMarkdown)
    IN [desiredTotal |-> desiredTotal, desiredMarkdown |-> desiredMarkdown,
        desiredHybrid |-> desiredHybrid]

pickSpawnKind(markdownDiff, hybridDiff) ==
    IF markdownDiff > 0 /\ hybridDiff > 0
    THEN (IF markdownDiff >= hybridDiff THEN "markdown" ELSE "hybrid")
    ELSE IF markdownDiff > 0 THEN "markdown"
    ELSE IF hybridDiff > 0 THEN "hybrid"
    ELSE "none"

\* The state of one tick: the scheduler state S, the ScaleState fields and the
\* two idle-id arrays (which shift() shortens).
createScaleState(S, counts, targets) ==
    [S |-> [S EXCEPT !.idleMarkdown = collectIdleIds(S, @),
                     !.idleHybrid = collectIdleIds(S, @)],
     ok |-> TRUE,
     idleMarkdownIds |-> collectIdleIds(S, S.idleMarkdown),
     idleHybridIds |-> collectIdleIds(S, S.idleHybrid),
     markdownCount |-> counts.markdown,
     hybridCount |-> counts.hybrid,
     markdownDiff |-> targets.desiredMarkdown - counts.markdown,
     hybridDiff |-> targets.desiredHybrid - counts.hybrid,
     spawnBudget |-> MAX_SPAWN_PER_TICK,
     stopBudget |-> MAX_STOP_PER_TICK]

idleIdsOf(T, kind) == IF kind = "markdown" THEN T.idleMarkdownIds ELSE T.idleHybridIds

shiftIdleIds(T, kind) ==
    IF kind = "markdown"
    THEN [T EXCEPT !.idleMarkdownIds = Tail(@)]
    ELSE [T EXCEPT !.idleHybridIds = Tail(@)]

\* A shift that stops the idle workers and spawns none in their place.
RECURSIVE shiftLoopNoSpawn(_, _, _, _)
shiftLoopNoSpawn(T, fromKind, toKind, n) ==
    IF n <= 0 \/ Len(idleIdsOf(T, fromKind)) = 0
    THEN T
    ELSE LET workerId == Head(idleIdsOf(T, fromKind))
             T1 == [shiftIdleIds(T, fromKind) EXCEPT
                      !.S = stopIdleWorker(T.S, workerId, fromKind),
                      !.spawnBudget = @ - 1, !.stopBudget = @ - 1]
         IN shiftLoopNoSpawn(T1, fromKind, toKind, n - 1)

\* shiftWorkers' loop: n workers of fromKind are stopped, n of toKind spawned.
RECURSIVE shiftLoop(_, _, _, _)
shiftLoop(T, fromKind, toKind, n) ==
    IF n <= 0 \/ Len(idleIdsOf(T, fromKind)) = 0
    THEN T
    ELSE LET workerId == Head(idleIdsOf(T, fromKind))
             sp == spawnWorker(stopIdleWorker(T.S, workerId, fromKind), toKind)
             T1 == [shiftIdleIds(T, fromKind) EXCEPT
                      !.S = sp.S, !.ok = @ /\ sp.ok,
                      !.spawnBudget = @ - 1, !.stopBudget = @ - 1]
         IN shiftLoop(T1, fromKind, toKind, n - 1)

\* shiftWorkers: the number of workers it will shift.
shiftAllowed(T, fromKind, requested) ==
    IF requested <= 0 \/ T.spawnBudget <= 0 \/ T.stopBudget <= 0
    THEN 0
    ELSE Min(Min(requested, Len(idleIdsOf(T, fromKind))),
             Min(T.spawnBudget, T.stopBudget))

rebalanceKinds(T) ==
    IF T.markdownDiff > 0 /\ T.hybridDiff < 0
    THEN LET shifted == shiftAllowed(T, "hybrid", Min(T.markdownDiff, -T.hybridDiff))
             T1 == shiftLoop(T, "hybrid", "markdown", shifted)
         IN [T1 EXCEPT !.markdownCount = @ + shifted, !.hybridCount = @ - shifted,
                       !.markdownDiff = @ - shifted, !.hybridDiff = @ + shifted]
    ELSE IF T.markdownDiff < 0 /\ T.hybridDiff > 0
    THEN LET shifted == shiftAllowed(T, "markdown", Min(-T.markdownDiff, T.hybridDiff))
             T1 == shiftLoop(T, "markdown", "hybrid", shifted)
         IN [T1 EXCEPT !.markdownCount = @ - shifted, !.hybridCount = @ + shifted,
                       !.markdownDiff = @ + shifted, !.hybridDiff = @ - shifted]
    ELSE T

RECURSIVE scaleUpLoop(_, _)
scaleUpLoop(T, n) ==
    LET kind == pickSpawnKind(T.markdownDiff, T.hybridDiff)
    IN IF n <= 0 \/ kind = "none"
       THEN T
       ELSE LET sp == spawnWorker(T.S, kind)
                T1 == [T EXCEPT !.S = sp.S, !.ok = @ /\ sp.ok,
                                !.spawnBudget = @ - 1]
            IN scaleUpLoop(
                   IF kind = "markdown"
                   THEN [T1 EXCEPT !.markdownCount = @ + 1, !.markdownDiff = @ - 1]
                   ELSE [T1 EXCEPT !.hybridCount = @ + 1, !.hybridDiff = @ - 1],
                   n - 1)

scaleUpWorkers(T, targets) ==
    LET totalDiff == targets.desiredTotal - (T.markdownCount + T.hybridCount)
    IN IF totalDiff <= 0 \/ T.spawnBudget <= 0
       THEN T
       ELSE scaleUpLoop(T, Min(T.spawnBudget, totalDiff))

\* stopWorkersFromKind's loop.
RECURSIVE stopLoop(_, _, _)
stopLoop(T, kind, n) ==
    IF n <= 0 \/ Len(idleIdsOf(T, kind)) = 0
    THEN T
    ELSE LET workerId == Head(idleIdsOf(T, kind))
             T1 == [shiftIdleIds(T, kind) EXCEPT
                      !.S = stopIdleWorker(T.S, workerId, kind),
                      !.stopBudget = @ - 1]
         IN stopLoop(T1, kind, n - 1)

\* stopWorkersFromKind: the number of workers it will stop.
stopAllowed(T, kind, requested) ==
    IF requested <= 0 \/ T.stopBudget <= 0
    THEN 0
    ELSE Min(Min(requested, Len(idleIdsOf(T, kind))), T.stopBudget)

scaleDownWorkers(T, targets) ==
    LET totalDiff == targets.desiredTotal - (T.markdownCount + T.hybridCount)
    IN IF totalDiff >= 0 \/ T.stopBudget <= 0
       THEN T
       ELSE LET remainingStop == Min(T.stopBudget, -totalDiff)
                stoppedMd ==
                    IF T.markdownDiff < 0 /\ remainingStop > 0
                    THEN stopAllowed(T, "markdown", Min(-T.markdownDiff, remainingStop))
                    ELSE 0
                T0 == stopLoop(T, "markdown", stoppedMd)
                T1 == [T0 EXCEPT !.markdownCount = @ - stoppedMd,
                                 !.markdownDiff = @ + stoppedMd]
                remaining2 == remainingStop - stoppedMd
                stoppedHy ==
                    IF T1.hybridDiff < 0 /\ remaining2 > 0
                    THEN stopAllowed(T1, "hybrid", Min(-T1.hybridDiff, remaining2))
                    ELSE 0
                T2 == stopLoop(T1, "hybrid", stoppedHy)
            IN [T2 EXCEPT !.hybridCount = @ - stoppedHy,
                          !.hybridDiff = @ + stoppedHy]

\* startAutoScaler.tick, once it is past its guard.
tick(S, metrics) ==
    LET counts == getPoolCounts(S)
        pending == [pendingMarkdown |-> Len(S.markdownQueue),
                    pendingHybrid |-> Len(S.hybridQueue)]
    IN Then(computeTargets(pending, counts, metrics, maxTotalWorkers),
            LAMBDA targets :
                Then(Then(Then(createScaleState(S, counts, targets),
                               rebalanceKinds),
                          LAMBDA T : scaleUpWorkers(T, targets)),
                     LAMBDA T : scaleDownWorkers(T, targets)))

\* ------------------------------------------------------------- the workers
\* What extractLinksFromMarkdown / extractLinksFromDom give for the job's page.
\* Link extraction that does not look at canGoDeeper.
linkCandidatesAnyDepth(job) ==
    [i \in 1..Len(site[job.url.page]) |-> Url(site[job.url.page][i], 0)]

linkCandidates(job) ==
    IF job.canGoDeeper
    THEN [i \in 1..Len(site[job.url.page]) |-> Url(site[job.url.page][i], 0)]
    ELSE << >>

\* A wait that returns at once.
deadlineIgnored(deadlineMs, clock) == TRUE

\* waitUntil: whether its loop returns at clock value `clock`.
deadlineReached(deadlineMs, clock) == clock >= deadlineMs

\* requestNext: the thread afterwards and what it posts.
requestNext(t) ==
    IF t.stopRequested
    THEN [t |-> DeadThread, out |-> << WorkerMsg("stopped", NoJob, << >>) >>]
    ELSE [t |-> [t EXCEPT !.inactivityTimer = TRUE],
          out |-> << WorkerMsg("requestTarget", NoJob, << >>) >>]

\* Whether the stop and assign handlers see a job: activeJob, and in the
\* hybrid worker also pendingRenderJob.
holdsJob(t) ==
    \/ t.activeJob # NoJob
    \/ t.kind = "hybrid" /\ t.pendingRenderJob # NoJob

\* self.onmessage of markdown-worker.ts and of the hybrid worker.
onmessage(t, message) ==
    CASE message.type = "init" ->
             requestNext([t EXCEPT !.phase = "running"])
      [] message.type = "stop" ->
             IF ~holdsJob(t)
             THEN [t |-> DeadThread,
                   out |-> << WorkerMsg("stopped", NoJob, << >>) >>]
             ELSE [t |-> [t EXCEPT !.stopRequested = TRUE], out |-> << >>]
      [] message.type = "assign" ->
             IF holdsJob(t) \/ t.phase = "new"
             THEN [t |-> t, out |-> << >>]
             ELSE [t |-> [t EXCEPT !.activeJob = message.job,
                                   !.inactivityTimer = FALSE,
                                   !.stage = "wait"],
                   out |-> << >>]
      [] message.type = "renderWithPlaywright" ->
             IF /\ t.kind = "hybrid"
                /\ t.pendingRenderJob # NoJob
                /\ t.pendingRenderJob.jobId = message.jobId
             THEN [t |-> [t EXCEPT !.renderJob = t.pendingRenderJob,
                                   !.pendingRenderJob = NoJob,
                                   !.inactivityTimer = FALSE],
                   out |-> << >>]
             ELSE [t |-> t, out |-> << >>]
      [] OTHER -> [t |-> t, out |-> << >>]

\* The outcomes of runJob once the fetch has started.
Outcomes(kind) ==
    IF kind = "markdown"
    THEN {"completed", "failed", "markdownUnavailable"}
    ELSE {"completed", "failed", "htmlInsufficient"}

\* runJob from the end of the fetch to the end of its finally block.
finishJob(t, outcome) ==
    LET job == t.activeJob
        message == WorkerMsg(outcome, job,
                             IF outcome = "completed" THEN linkCandidates(job)
                             ELSE << >>)
        t1 == [t EXCEPT !.activeJob = NoJob, !.stage = "none", !.fetchAt = 0,
                        !.attempt = 0, !.source = "pending",
                        !.lastResponse = "none"]
    IN IF outcome = "htmlInsufficient"
       THEN [t |-> [t1 EXCEPT !.pendingRenderJob = job], out |-> << message >>]
       ELSE LET r == requestNext(t1)
            IN [t |-> r.t, out |-> << message >> \o r.out]

\* runRender that finds the rendered page wanting and asks for a render again.
finishRenderAgain(t, outcome) ==
    LET job == t.renderJob
        message == WorkerMsg(outcome, job,
                             IF outcome = "completed" THEN linkCandidates(job)
                             ELSE << >>)
        r == requestNext([t EXCEPT !.renderJob = NoJob])
    IN IF outcome = "failed"
       THEN [t |-> [t EXCEPT !.renderJob = NoJob, !.pendingRenderJob = job],
             out |-> << WorkerMsg("htmlInsufficient", job, << >>) >>]
       ELSE [t |-> r.t, out |-> << message >> \o r.out]

\* runRender from the end of the render to the end of its finally block.
finishRender(t, outcome) ==
    LET job == t.renderJob
        message == WorkerMsg(outcome, job,
                             IF outcome = "completed" THEN linkCandidates(job)
                             ELSE << >>)
        r == requestNext([t EXCEPT !.renderJob = NoJob])
    IN [t |-> r.t, out |-> << message >> \o r.out]

\* What one request for the companion Markdown URL can come to: a 2xx response
\* with text, a 2xx response whose body is empty or blank, a 404, another
\* non-2xx status, or a fetch that rejects or is aborted by the timeout.
MarkdownResponses == {"ok", "empty", "http404", "http500", "network"}

\* A fetch of the companion URL that throws on a non-2xx status.
fetchMarkdownThrowsOnStatus(t, response) ==
    IF response \in {"ok", "empty"}
    THEN [t EXCEPT !.lastResponse = response,
                   !.source = IF response = "ok" THEN "markdown" ELSE "blank"]
    ELSE IF response \in {"http404", "http500"}
    THEN [t EXCEPT !.lastResponse = response, !.source = "thrown"]
    ELSE [t EXCEPT !.lastResponse = response,
                   !.attempt = @ + 1,
                   !.source = IF t.attempt + 1 > options.retries
                              THEN "null" ELSE "pending"]

\* One pass of the while loop of network.fetchMarkdownIfAvailable, in the
\* thread that runs it: source is what the call has returned ("null",
\* "markdown", "blank" for a body without text), or "pending".
fetchMarkdownIfAvailable(t, response) ==
    IF response \in {"ok", "empty"}
    THEN [t EXCEPT !.lastResponse = response,
                   !.source = IF response = "ok" THEN "markdown" ELSE "blank"]
    ELSE IF response \in {"http404", "http500"}
    THEN [t EXCEPT !.lastResponse = response, !.source = "null"]
    ELSE [t EXCEPT !.lastResponse = response,
                   !.attempt = @ + 1,
                   !.source = IF t.attempt + 1 > options.retries
                              THEN "null" ELSE "pending"]

\* markdown-worker.ts runJob after the fetch: what it posts for the source it
\* got; processed is FALSE when parsing, rewriting or writing throws.
runJobOutcome(source, processed) ==
    IF source \in {"null", "blank"}
    THEN "markdownUnavailable"
    ELSE IF source = "markdown" /\ processed
    THEN "completed"
    ELSE "failed"

\* ------------------------------------------------------------------ actions
SetSched(S) ==
    /\ markdownQueue' = S.markdownQueue
    /\ hybridQueue' = S.hybridQueue
    /\ jobMap' = S.jobMap
    /\ knownUrls' = S.knownUrls
    /\ visited' = S.visited
    /\ failures' = S.failures
    /\ idleMarkdown' = S.idleMarkdown
    /\ idleHybrid' = S.idleHybrid
    /\ nextAllowedByOrigin' = S.nextAllowedByOrigin
    /\ savedCount' = S.savedCount
    /\ inFlightCount' = S.inFlightCount
    /\ processedCount' = S.processedCount
    /\ isDone' = S.isDone
    /\ nextJobId' = S.nextJobId
    /\ workers' = S.workers
    /\ stopResolvers' = S.stopResolvers
    /\ inbox' = S.inbox
    /\ hist' = S.hist

schedVars == << markdownQueue, hybridQueue, jobMap, knownUrls, visited, failures,
                idleMarkdown, idleHybrid, nextAllowedByOrigin, savedCount,
                inFlightCount, processedCount, isDone, nextJobId, workers,
                stopResolvers >>

\* The runs: the options of the command line, the site and its robots.txt.
Run(maxPages, maxDepth, concurrency, delayMs, frag, links, policy) ==
    [options |-> [maxPages |-> maxPages, maxDepth |-> maxDepth,
                  concurrency |-> concurrency, delayMs |-> delayMs,
                  crawlStart |-> Url(1, frag)],
     site |-> links, robotsPolicy |-> policy]

Runs ==
    {Run(n, d, 2, 0, 0, s, AllowAll) :
        n \in 1..MaxMaxPages, d \in 0..MaxMaxDepth, s \in Sites}
    \cup {Run(MaxMaxPages, MaxMaxDepth, 2, 0, 0, s, r) :
              s \in Sites, r \in RobotsPolicies}
    \cup {Run(2, d, 2, 2, 0, FanSite, AllowAll) : d \in 1..MaxMaxDepth}
    \cup {Run(MaxMaxPages, MaxMaxDepth, c, 0, 1, LoopSite, AllowAll) : c \in 1..2}
    \cup {Run(2, 1, MaxConcurrency, 0, 0, FanSite, AllowAll)}

\* The history of a run in which nothing has happened yet.
NoHistory ==
    [assignedMarkdown |-> [p \in Pages |-> 0],
     assignedHybrid |-> [p \in Pages |-> 0],
     written |-> [p \in Pages |-> 0],
     waitUntil |-> [w \in Slots |-> 0],
     blocked |-> {},
     unavailable |-> 0,
     scaleDowns |-> 0,
     timeouts |-> 0,
     fellBack |-> {},
     unavailableAfter |-> {},
     lastFetchAt |-> -1,
     fetchTooClose |-> FALSE]

\* runCrawlWithWorkers up to its first await: the seed is queued and known,
\* one worker of each kind is spawned, and the autoscaler's first tick has
\* found nothing to change.
InitWith(runs, history) ==
    /\ \E run \in runs : /\ options = run.options
                         /\ site = run.site
                         /\ robotsPolicy = run.robotsPolicy
    /\ now = 0
    /\ LET initialItem == [jobId |-> 1, url |-> options.crawlStart, depth |-> 0,
                           canGoDeeper |-> options.maxDepth > 0]
       IN /\ markdownQueue = << initialItem >>
          /\ jobMap = {initialItem}
          /\ knownUrls = {normalizeForQueue(options.crawlStart)}
    /\ hybridQueue = << >>
    /\ visited = {}
    /\ failures = << >>
    /\ idleMarkdown = << >>
    /\ idleHybrid = << >>
    /\ nextAllowedByOrigin = [o \in Origins |-> 0]
    /\ savedCount = 0
    /\ inFlightCount = 0
    /\ processedCount = 0
    /\ isDone = (0 >= options.maxPages)
    /\ nextJobId = 2
    /\ workers = [w \in Slots |->
                    IF w = 1 THEN [NoWorker EXCEPT !.present = TRUE]
                    ELSE IF w = 2
                    THEN [NoWorker EXCEPT !.present = TRUE, !.kind = "hybrid"]
                    ELSE NoWorker]
    /\ stopResolvers = {}
    /\ mainPc = "running"
    /\ wk = [w \in Slots |-> IF w = 1 THEN NewThread("markdown")
                             ELSE IF w = 2 THEN NewThread("hybrid")
                             ELSE DeadThread]
    /\ inbox = [w \in Slots |-> IF w \in {1, 2}
                                THEN << MainMsg("init", NoJob, 0) >>
                                ELSE << >>]
    /\ outbox = [w \in Slots |-> << >>]
    /\ hist = history

InitOf(runs) == InitWith(runs, NoHistory)

Init == InitOf(Runs)

\* The threads of the workers an action of the scheduler has spawned.
SpawnThreads(S) ==
    wk' = [w \in Slots |->
             IF S.workers[w].present /\ ~workers[w].present
             THEN NewThread(S.workers[w].kind)
             ELSE wk[w]]

\* The scheduler is between two tasks of its event loop.  The continuation of
\* runCrawlWithWorkers after isDone runs before the next message or tick.
MainIdle == mainPc = "stopping" \/ (mainPc = "running" /\ ~isDone)

\* The scheduler takes the next message of worker w.
MainReceive(w) ==
    /\ MainIdle
    /\ outbox[w] # << >>
    /\ SetSched(handleCrawlMessage(Sched, w, Head(outbox[w])))
    /\ outbox' = [outbox EXCEPT ![w] = Tail(@)]
    /\ UNCHANGED << configVars, now, mainPc, wk >>

\* The autoscaler's interval fires.
AutoscalerTick(metrics) ==
    /\ mainPc = "running"
    /\ ~isDone
    /\ \E T \in {tick(Sched, metrics)} :
          /\ T.ok
          /\ SetSched([T.S EXCEPT !.hist.scaleDowns =
                                    IF T.stopBudget < MAX_STOP_PER_TICK
                                    THEN Min(@ + 1, MaxScaleDowns) ELSE @])
          /\ SpawnThreads(T.S)
    /\ UNCHANGED << configVars, now, mainPc, outbox >>

\* runCrawlWithWorkers after its await: stopAutoScaler, then pool.stopAll
\* up to the await of the workers' stops.
Shutdown ==
    /\ mainPc = "running"
    /\ isDone
    /\ SetSched(stopAll(Sched))
    /\ mainPc' = "stopping"
    /\ UNCHANGED << configVars, now, wk, outbox >>

\* pool.stopAll returns: every stop it waited for has been seen.
StopAllDone ==
    /\ mainPc = "stopping"
    /\ stopResolvers = {}
    /\ mainPc' = "finished"
    /\ UNCHANGED << configVars, now, schedVars, wk, inbox, outbox, hist >>

\* What a step of worker w leaves behind: thread r.t, r.out posted.  A thread
\* that exits drops what is left in its inbox.
WorkerStep(w, r, newInbox) ==
    /\ wk' = [wk EXCEPT ![w] = r.t]
    /\ outbox' = [outbox EXCEPT ![w] = @ \o r.out]
    /\ inbox' = [inbox EXCEPT ![w] = IF r.t.phase = "exited" THEN << >> ELSE newInbox]

\* The history after a request to the site that starts at the clock's value:
\* when the last one started, and whether two came closer than delayMs.
fetchStarted(h) ==
    [h EXCEPT !.lastFetchAt = now,
              !.fetchTooClose = \/ @
                                \/ /\ h.lastFetchAt >= 0
                                   /\ now - h.lastFetchAt < options.delayMs]

\* Worker w takes the next message of its inbox.  runRender goes to the site
\* as soon as it is called.
WorkerReceive(w) ==
    /\ mainPc # "finished"
    /\ wk[w].phase # "exited"
    /\ inbox[w] # << >>
    /\ WorkerStep(w, onmessage(wk[w], Head(inbox[w])), Tail(inbox[w]))
    /\ hist' = IF wk'[w].renderJob # wk[w].renderJob
               THEN fetchStarted(hist)
               ELSE hist
    /\ UNCHANGED << configVars, now, schedVars, mainPc >>

\* waitUntil returns: the clock has reached the job's deadline, the fetch starts.
WorkerStartFetch(w) ==
    /\ mainPc # "finished"
    /\ wk[w].stage = "wait"
    /\ deadlineReached(wk[w].activeJob.waitUntilMs, now)
    /\ wk' = [wk EXCEPT ![w].stage = "fetch", ![w].fetchAt = now]
    /\ hist' = fetchStarted(hist)
    /\ UNCHANGED << configVars, now, schedVars, mainPc, inbox, outbox >>

WorkerJobOutcome(w, outcome) ==
    /\ mainPc # "finished"
    /\ wk[w].stage = "fetch"
    /\ outcome \in Outcomes(wk[w].kind)
    /\ WorkerStep(w, finishJob(wk[w], outcome), inbox[w])
    /\ hist' = IF outcome = "completed"
               THEN [hist EXCEPT !.written[wk[w].activeJob.url.page] = @ + 1]
               ELSE hist
    /\ UNCHANGED << configVars, now, schedVars, mainPc >>

WorkerRenderOutcome(w, outcome) ==
    /\ mainPc # "finished"
    /\ wk[w].renderJob # NoJob
    /\ WorkerStep(w, finishRender(wk[w], outcome), inbox[w])
    /\ hist' = IF outcome = "completed"
               THEN [hist EXCEPT !.written[wk[w].renderJob.url.page] = @ + 1]
               ELSE hist
    /\ UNCHANGED << configVars, now, schedVars, mainPc >>

\* The inactivity timer of an idle worker fires (with a job it only restarts).
WorkerInactivity(w) ==
    /\ mainPc # "finished"
    /\ wk[w].inactivityTimer
    /\ ~holdsJob(wk[w])
    /\ WorkerStep(w, [t |-> DeadThread,
                      out |-> << WorkerMsg("stopped", NoJob, << >>) >>], << >>)
    /\ hist' = [hist EXCEPT !.timeouts = Min(@ + 1, MaxTimeouts)]
    /\ UNCHANGED << configVars, now, schedVars, mainPc >>

\* Date.now() moves on.  Without a delay computeWaitUntil hands out the clock
\* itself and no worker waits, so the clock is left alone in such runs.
ClockTick ==
    /\ mainPc # "finished"
    /\ \/ now < MaxClock /\ effectiveDelay > 0
       \/ \E w \in Slots : wk[w].stage = "wait" /\ wk[w].activeJob.waitUntilMs > now
    /\ now' = now + 1
    /\ UNCHANGED << configVars, schedVars, mainPc, wk, inbox, outbox, hist >>

\* The runs explored are those with at most MaxScaleDowns ticks that stop
\* workers and at most MaxTimeouts inactivity timers that fire.
TickStops(metrics) == tick(Sched, metrics).stopBudget < MAX_STOP_PER_TICK

Next ==
    \/ \E w \in Slots : MainReceive(w)
    \/ \E m \in MetricsChoices :
          /\ TickStops(m) => hist.scaleDowns < MaxScaleDowns
          /\ AutoscalerTick(m)
    \/ Shutdown
    \/ StopAllDone
    \/ \E w \in Slots : WorkerReceive(w)
    \/ \E w \in Slots : WorkerStartFetch(w)
    \/ \E w \in Slots, o \in {"completed", "failed", "markdownUnavailable",
                              "htmlInsufficient"} : WorkerJobOutcome(w, o)
    \/ \E w \in Slots, o \in {"completed", "failed"} : WorkerRenderOutcome(w, o)
    \/ \E w \in Slots : hist.timeouts < MaxTimeouts /\ WorkerInactivity(w)
    \/ ClockTick

Spec == Init /\ [][Next]_vars

\* ------------------------------------------------------- counted renders
\* The crawls of Spec, with the htmlInsufficient messages of each page counted
\* as the workers post them.
countInsufficient(h, out) ==
    IF out # << >> /\ out[1].type = "htmlInsufficient"
    THEN [h EXCEPT !.insufficient[out[1].url.page] = @ + 1]
    ELSE h

InitEscalate ==
    InitWith(Runs, [f \in DOMAIN NoHistory \cup {"insufficient"} |->
                       IF f = "insufficient" THEN [p \in Pages |-> 0]
                       ELSE NoHistory[f]])

JobOutcomeCounted(w, outcome) ==
    /\ mainPc # "finished"
    /\ wk[w].stage = "fetch"
    /\ outcome \in Outcomes(wk[w].kind)
    /\ WorkerStep(w, finishJob(wk[w], outcome), inbox[w])
    /\ hist' = countInsufficient(
                   IF outcome = "completed"
                   THEN [hist EXCEPT !.written[wk[w].activeJob.url.page] = @ + 1]
                   ELSE hist,
                   finishJob(wk[w], outcome).out)
    /\ UNCHANGED << configVars, now, schedVars, mainPc >>

RenderOutcomeCounted(w, outcome) ==
    /\ mainPc # "finished"
    /\ wk[w].renderJob # NoJob
    /\ WorkerStep(w, finishRender(wk[w], outcome), inbox[w])
    /\ hist' = countInsufficient(
                   IF outcome = "completed"
                   THEN [hist EXCEPT !.written[wk[w].renderJob.url.page] = @ + 1]
                   ELSE hist,
                   finishRender(wk[w], outcome).out)
    /\ UNCHANGED << configVars, now, schedVars, mainPc >>

NextEscalate ==
    \/ \E w \in Slots : MainReceive(w)
    \/ \E m \in MetricsChoices :
          /\ TickStops(m) => hist.scaleDowns < MaxScaleDowns
          /\ AutoscalerTick(m)
    \/ Shutdown
    \/ StopAllDone
    \/ \E w \in Slots : WorkerReceive(w)
    \/ \E w \in Slots : WorkerStartFetch(w)
    \/ \E w \in Slots, o \in {"completed", "failed", "markdownUnavailable",
                              "htmlInsufficient"} : JobOutcomeCounted(w, o)
    \/ \E w \in Slots, o \in {"completed", "failed"} : RenderOutcomeCounted(w, o)
    \/ \E w \in Slots : hist.timeouts < MaxTimeouts /\ WorkerInactivity(w)
    \/ ClockTick

SpecEscalate == InitEscalate /\ [][NextEscalate]_vars

\* ------------------------------------------------------------ scrape mode
\* runScrapeWithWorkers: every URL of the command line is queued at the start,
\* no link is followed, and the run is done when every URL has been processed.
ScrapeMode == "urls" \in DOMAIN options

checkDone(S) ==
    IF S.isDone
    THEN S
    ELSE IF /\ S.processedCount >= Len(options.urls)
            /\ S.inFlightCount <= 0
            /\ Len(S.markdownQueue) = 0
            /\ Len(S.hybridQueue) = 0
         THEN [S EXCEPT !.isDone = TRUE]
         ELSE S

\* assignNext of runScrapeWithWorkers: no page cap, no robots.txt, no visited set.
scrapeAssignNext(S, w) ==
    IF S.workers[w].stopping
    THEN S
    ELSE IF S.workers[w].kind = "markdown"
         THEN IF Len(S.markdownQueue) = 0
              THEN markIdle(S, w)
              ELSE commitJob([S EXCEPT !.markdownQueue = Tail(@)], w,
                             Head(S.markdownQueue))
         ELSE IF Len(S.hybridQueue) = 0
              THEN markIdle(S, w)
              ELSE commitJob([S EXCEPT !.hybridQueue = Tail(@)], w,
                             Head(S.hybridQueue))

RECURSIVE scrapeDispatchLoop(_, _)
scrapeDispatchLoop(S, ids) ==
    IF Len(ids) = 0
    THEN S
    ELSE scrapeDispatchLoop(IF S.workers[Head(ids)].present
                            THEN scrapeAssignNext(S, Head(ids))
                            ELSE S,
                            Tail(ids))

scrapeDispatchIdle(S) ==
    LET S1 == scrapeDispatchLoop(S, S.idleMarkdown)
    IN scrapeDispatchLoop(S1, S1.idleHybrid)

scrapeHandleCompleted(S, w, message) ==
    LET S1 == clearCurrentJob([S EXCEPT !.inFlightCount = @ - 1,
                                        !.processedCount = @ + 1], w)
    IN checkDone([S1 EXCEPT !.jobMap = @ \ jobOfId(S1, message.jobId)])

scrapeHandleFailed(S, w, message) ==
    LET S1 == clearCurrentJob([S EXCEPT !.inFlightCount = @ - 1,
                                        !.processedCount = @ + 1], w)
    IN checkDone([S1 EXCEPT !.jobMap = @ \ jobOfId(S1, message.jobId)])

scrapeHandleMarkdownUnavailable(S, w, message) ==
    LET S1 == clearCurrentJob([S EXCEPT !.inFlightCount = @ - 1,
                                        !.hist.unavailable = @ + 1,
                                        !.hist.fellBack = @ \cup {message.url.page}], w)
        job == jobOfId(S1, message.jobId)
    IN IF job # {}
       THEN checkDone(scrapeDispatchIdle(
                [S1 EXCEPT !.hybridQueue = Append(@, CHOOSE j \in job : TRUE)]))
       ELSE checkDone(S1)

\* The "message" listener of spawnWorker, then handleScrapeMessage.
handleScrapeMessage(S, w, message) ==
    CASE message.type = "stopped" -> handleStopped(S, w)
      [] message.type = "requestTarget" -> scrapeAssignNext(S, w)
      [] message.type = "completed" -> scrapeHandleCompleted(S, w, message)
      [] message.type = "failed" -> scrapeHandleFailed(S, w, message)
      [] message.type = "markdownUnavailable" ->
             scrapeHandleMarkdownUnavailable(S, w, message)
      [] message.type = "htmlInsufficient" ->
             handleHtmlInsufficient(S, w, message)
      [] OTHER -> S

\* The URLs of the command line, at most MaxUrls of them.
MaxUrls == 3

ScrapeRuns ==
    {[urls |-> [i \in 1..n |-> Url(i, 0)], concurrency |-> 2, delayMs |-> 0] :
        n \in 1..MaxUrls}

\* The queue item runScrapeWithWorkers makes of its i-th URL.
scrapeItem(i) ==
    [jobId |-> i, url |-> options.urls[i], depth |-> 0, canGoDeeper |-> FALSE]

\* runScrapeWithWorkers up to its first await.
InitScrape ==
    /\ options \in ScrapeRuns
    /\ site = FanSite
    /\ robotsPolicy = AllowAll
    /\ now = 0
    /\ markdownQueue = [i \in 1..Len(options.urls) |-> scrapeItem(i)]
    /\ jobMap = {scrapeItem(i) : i \in 1..Len(options.urls)}
    /\ knownUrls = {normalizeForQueue(options.urls[i]) : i \in 1..Len(options.urls)}
    /\ hybridQueue = << >>
    /\ visited = {}
    /\ failures = << >>
    /\ idleMarkdown = << >>
    /\ idleHybrid = << >>
    /\ nextAllowedByOrigin = [o \in Origins |-> 0]
    /\ savedCount = 0
    /\ inFlightCount = 0
    /\ processedCount = 0
    /\ isDone = FALSE
    /\ nextJobId = Len(options.urls) + 1
    /\ workers = [w \in Slots |->
                    IF w = 1 THEN [NoWorker EXCEPT !.present = TRUE]
                    ELSE IF w = 2
                    THEN [NoWorker EXCEPT !.present = TRUE, !.kind = "hybrid"]
                    ELSE NoWorker]
    /\ stopResolvers = {}
    /\ mainPc = "running"
    /\ wk = [w \in Slots |-> IF w = 1 THEN NewThread("markdown")
                             ELSE IF w = 2 THEN NewThread("hybrid")
                             ELSE DeadThread]
    /\ inbox = [w \in Slots |-> IF w \in {1, 2}
                                THEN << MainMsg("init", NoJob, 0) >>
                                ELSE << >>]
    /\ outbox = [w \in Slots |-> << >>]
    /\ hist = NoHistory

\* The scheduler of a scrape takes the next message of worker w.
MainReceiveScrape(w) ==
    /\ MainIdle
    /\ outbox[w] # << >>
    /\ SetSched(handleScrapeMessage(Sched, w, Head(outbox[w])))
    /\ outbox' = [outbox EXCEPT ![w] = Tail(@)]
    /\ UNCHANGED << configVars, now, mainPc, wk >>

\* Crawls and scrapes side by side.
InitModes == Init \/ InitScrape

NextModes ==
    \/ \E w \in Slots : ~ScrapeMode /\ MainReceive(w)
    \/ \E w \in Slots : ScrapeMode /\ MainReceiveScrape(w)
    \/ \E m \in MetricsChoices :
          /\ TickStops(m) => hist.scaleDowns < MaxScaleDowns
          /\ AutoscalerTick(m)
    \/ Shutdown
    \/ StopAllDone
    \/ \E w \in Slots : WorkerReceive(w)
    \/ \E w \in Slots : WorkerStartFetch(w)
    \/ \E w \in Slots, o \in {"completed", "failed", "markdownUnavailable",
                              "htmlInsufficient"} : WorkerJobOutcome(w, o)
    \/ \E w \in Slots, o \in {"completed", "failed"} : WorkerRenderOutcome(w, o)
    \/ \E w \in Slots : hist.timeouts < MaxTimeouts /\ WorkerInactivity(w)
    \/ ClockTick

SpecModes == InitModes /\ [][NextModes]_vars

\* ------------------------------------------------------- fair scheduling
\* Crawls of the link tree FanSite (no cycle), with every tick and every
\* inactivity timer the code can take.  Every thread keeps running, every
\* posted message is delivered, every timer that is due fires: each step that
\* stays enabled is taken.
RunsLive ==
    {Run(1, 0, 2, 2, 0, FanSite, AllowAll), Run(2, 1, 2, 0, 0, FanSite, AllowAll)}

InitLive == InitOf(RunsLive)

NextLive ==
    \/ \E w \in Slots : MainReceive(w)
    \/ \E m \in MetricsChoices : AutoscalerTick(m)
    \/ Shutdown
    \/ StopAllDone
    \/ \E w \in Slots : WorkerReceive(w)
    \/ \E w \in Slots : WorkerStartFetch(w)
    \/ \E w \in Slots, o \in {"completed", "failed", "markdownUnavailable",
                              "htmlInsufficient"} : WorkerJobOutcome(w, o)
    \/ \E w \in Slots, o \in {"completed", "failed"} : WorkerRenderOutcome(w, o)
    \/ \E w \in Slots : WorkerInactivity(w)
    \/ ClockTick

Fairness ==
    /\ \A w \in Slots :
          /\ WF_vars(MainReceive(w))
          /\ WF_vars(WorkerReceive(w))
          /\ WF_vars(WorkerStartFetch(w))
          /\ WF_vars(\E o \in {"completed", "failed", "markdownUnavailable",
                                "htmlInsufficient"} : WorkerJobOutcome(w, o))
          /\ WF_vars(\E o \in {"completed", "failed"} : WorkerRenderOutcome(w, o))
          /\ WF_vars(WorkerInactivity(w))
    /\ WF_vars(\E m \in MetricsChoices : AutoscalerTick(m))
    /\ WF_vars(Shutdown)
    /\ WF_vars(StopAllDone)
    /\ WF_vars(ClockTick)

SpecLive == InitLive /\ [][NextLive]_vars /\ Fairness

\* ------------------------------------------------- the rate limiter alone
\* computeWaitUntil called over and over on one map, for URLs of two origins,
\* each call at a clock value of its own (the clock may also step back).  hist
\* keeps, per origin, the last deadline returned and the one before (-1: none).
InitRate ==
    /\ \E d \in 1..MaxDelay :
          options = Run(1, 0, 1, d, 0, FanSite, AllowAll).options
    /\ site = FanSite
    /\ robotsPolicy = AllowAll
    /\ now = 0
    /\ markdownQueue = << >>
    /\ hybridQueue = << >>
    /\ jobMap = {}
    /\ knownUrls = {}
    /\ visited = {}
    /\ failures = << >>
    /\ idleMarkdown = << >>
    /\ idleHybrid = << >>
    /\ nextAllowedByOrigin = [o \in Origins |-> 0]
    /\ savedCount = 0
    /\ inFlightCount = 0
    /\ processedCount = 0
    /\ isDone = FALSE
    /\ nextJobId = 1
    /\ workers = [w \in Slots |-> NoWorker]
    /\ stopResolvers = {}
    /\ mainPc = "rate"
    /\ wk = [w \in Slots |-> DeadThread]
    /\ inbox = [w \in Slots |-> << >>]
    /\ outbox = [w \in Slots |-> << >>]
    /\ hist = [last |-> [o \in Origins |-> -1],
               prev |-> [o \in Origins |-> -1],
               calls |-> 0]

RateCall(url, clock) ==
    /\ mainPc = "rate"
    /\ hist.calls < MaxCalls
    /\ LET r == computeWaitUntil(nextAllowedByOrigin, url, options.delayMs, clock)
           origin == OriginOf(url)
       IN /\ nextAllowedByOrigin' = r.nextAllowedByOrigin
          /\ hist' = [hist EXCEPT !.prev[origin] = hist.last[origin],
                                  !.last[origin] = r.waitUntil,
                                  !.calls = @ + 1]
    /\ now' = clock
    /\ UNCHANGED << configVars, markdownQueue, hybridQueue, jobMap, knownUrls,
                    visited, failures, idleMarkdown, idleHybrid, savedCount,
                    inFlightCount, processedCount, isDone, nextJobId, workers,
                    stopResolvers,
                    mainPc, wk, inbox, outbox >>

NextRate ==
    \E url \in {Url(1, 0), Url(0, 0)}, clock \in 0..MaxRateClock : RateCall(url, clock)

SpecRate == InitRate /\ [][NextRate]_vars

\* ------------------------------------------------------- a slow site
\* A crawl with concurrency MaxConcurrency of a site whose pages take 20 s
\* each, by either kind of worker: the averages the autoscaler reads stay at
\* 20000 ms.  No inactivity timer fires.
SlowSiteMetrics ==
    [markdownActiveMs |-> 20000, hybridActiveMs |-> 20000,
     rate |-> [num |-> 0, den |-> 1]]

InitPool == InitOf({Run(2, 1, MaxConcurrency, 0, 0, FanSite, AllowAll)})

NextPool ==
    \/ \E w \in Slots : MainReceive(w)
    \/ /\ TickStops(SlowSiteMetrics) => hist.scaleDowns < MaxScaleDowns
       /\ AutoscalerTick(SlowSiteMetrics)
    \/ Shutdown
    \/ StopAllDone
    \/ \E w \in Slots : WorkerReceive(w)
    \/ \E w \in Slots : WorkerStartFetch(w)
    \/ \E w \in Slots, o \in {"completed", "failed", "markdownUnavailable",
                              "htmlInsufficient"} : WorkerJobOutcome(w, o)
    \/ \E w \in Slots, o \in {"completed", "failed"} : WorkerRenderOutcome(w, o)

SpecPool == InitPool /\ [][NextPool]_vars

\* ------------------------------------------------------- a wide site
\* A crawl of WideSite with maxPages 5 and concurrency 4; its pages are slow
\* (SlowSiteMetrics), so the autoscaler aims at three markdown workers and one
\* hybrid worker.  A markdown worker completes the pages that have a
\* companion file and reports markdownUnavailable for the others; the hybrid
\* worker completes every page it fetches.
InitQueue == InitOf({Run(5, 2, 4, 0, 0, WideSite, AllowAll)})

NextQueue ==
    \/ \E w \in Slots : MainReceive(w)
    \/ /\ TickStops(SlowSiteMetrics) => hist.scaleDowns < MaxScaleDowns
       /\ AutoscalerTick(SlowSiteMetrics)
    \/ Shutdown
    \/ StopAllDone
    \/ \E w \in Slots : WorkerReceive(w)
    \/ \E w \in Slots : WorkerStartFetch(w)
    \/ \E w \in Slots :
          /\ wk[w].kind = "markdown"
          /\ WorkerJobOutcome(w, IF wk[w].activeJob.url.page \in WithCompanion
                                 THEN "completed" ELSE "markdownUnavailable")
    \/ \E w \in Slots : wk[w].kind = "hybrid" /\ WorkerJobOutcome(w, "completed")

SpecQueue == InitQueue /\ [][NextQueue]_vars

\* ------------------------------------------- the companion Markdown fetch
\* A crawl in which the markdown workers' fetch is followed request by
\* request: each request for the companion URL comes to one of
\* MarkdownResponses, and runJob posts what the source it got calls for.
RunsMarkdown ==
    {[options |-> [maxPages |-> 2, maxDepth |-> 1, concurrency |-> 2,
                   delayMs |-> 0, crawlStart |-> Url(1, 0), retries |-> r],
      site |-> FanSite, robotsPolicy |-> AllowAll] : r \in 0..1}

InitMarkdown == InitOf(RunsMarkdown)

\* The next request of fetchMarkdownIfAvailable in markdown worker w.
MarkdownFetchAttempt(w, response) ==
    /\ mainPc # "finished"
    /\ wk[w].kind = "markdown"
    /\ wk[w].stage = "fetch"
    /\ wk[w].source = "pending"
    /\ wk' = [wk EXCEPT ![w] = fetchMarkdownIfAvailable(@, response)]
    /\ UNCHANGED << configVars, now, schedVars, mainPc, inbox, outbox, hist >>

\* runJob of markdown worker w from the return of fetchMarkdownIfAvailable to
\* the end of its finally block.
MarkdownJobEnd(w, processed) ==
    /\ mainPc # "finished"
    /\ wk[w].kind = "markdown"
    /\ wk[w].stage = "fetch"
    /\ wk[w].source # "pending"
    /\ LET outcome == runJobOutcome(wk[w].source, processed)
       IN /\ WorkerStep(w, finishJob(wk[w], outcome), inbox[w])
          /\ hist' =
                IF outcome = "completed"
                THEN [hist EXCEPT !.written[wk[w].activeJob.url.page] = @ + 1]
                ELSE IF outcome = "markdownUnavailable"
                THEN [hist EXCEPT !.unavailableAfter = @ \cup {wk[w].lastResponse}]
                ELSE hist
    /\ UNCHANGED << configVars, now, schedVars, mainPc >>

NextMarkdown ==
    \/ \E w \in Slots : MainReceive(w)
    \/ AutoscalerTick(DefaultMetrics)
    \/ Shutdown
    \/ StopAllDone
    \/ \E w \in Slots : WorkerReceive(w)
    \/ \E w \in Slots : WorkerStartFetch(w)
    \/ \E w \in Slots, r \in MarkdownResponses : MarkdownFetchAttempt(w, r)
    \/ \E w \in Slots, processed \in BOOLEAN : MarkdownJobEnd(w, processed)
    \/ \E w \in Slots, o \in {"completed", "failed", "htmlInsufficient"} :
          wk[w].kind = "hybrid" /\ WorkerJobOutcome(w, o)
    \/ \E w \in Slots, o \in {"completed", "failed"} : WorkerRenderOutcome(w, o)

SpecMarkdown == InitMarkdown /\ [][NextMarkdown]_vars

\* ------------------------------------------------- crawls with --no-render
\* Crawls with --render and with --no-render (options.render), every outcome
\* of a job open.
RunsRender ==
    {[options |-> [maxPages |-> 2, maxDepth |-> 1, concurrency |-> 2,
                   delayMs |-> 0, crawlStart |-> Url(1, 0), render |-> r],
      site |-> FanSite, robotsPolicy |-> AllowAll] : r \in BOOLEAN}

InitRender == InitOf(RunsRender)

NextRender ==
    \/ \E w \in Slots : MainReceive(w)
    \/ AutoscalerTick(DefaultMetrics)
    \/ Shutdown
    \/ StopAllDone
    \/ \E w \in Slots : WorkerReceive(w)
    \/ \E w \in Slots : WorkerStartFetch(w)
    \/ \E w \in Slots, o \in {"completed", "failed", "markdownUnavailable",
                              "htmlInsufficient"} : WorkerJobOutcome(w, o)
    \/ \E w \in Slots, o \in {"completed", "failed"} : WorkerRenderOutcome(w, o)

SpecRender == InitRender /\ [][NextRender]_vars

\* ------------------------------------------------------ the workers alone
\* The two worker programs (worker 1: markdown-worker.ts, worker 2: the hybrid
\* worker) under an owner that keeps to the message protocol and to nothing
\* else: it assigns a job to a worker at any time, posts stop at any time
\* (once per worker, as pool.stopWorker does), answers htmlInsufficient with
\* renderWithPlaywright and takes every other message.  nextJobId is the id of
\* the next job the owner assigns.
InitWorker ==
    /\ options = Run(MaxWorkerJobs, 0, 2, 0, 0, FanSite, AllowAll).options
    /\ site = FanSite
    /\ robotsPolicy = AllowAll
    /\ now = 0
    /\ markdownQueue = << >>
    /\ hybridQueue = << >>
    /\ jobMap = {}
    /\ knownUrls = {}
    /\ visited = {}
    /\ failures = << >>
    /\ idleMarkdown = << >>
    /\ idleHybrid = << >>
    /\ nextAllowedByOrigin = [o \in Origins |-> 0]
    /\ savedCount = 0
    /\ inFlightCount = 0
    /\ processedCount = 0
    /\ isDone = FALSE
    /\ nextJobId = 1
    /\ workers = [w \in Slots |->
                    IF w = 1 THEN [NoWorker EXCEPT !.present = TRUE]
                    ELSE IF w = 2
                    THEN [NoWorker EXCEPT !.present = TRUE, !.kind = "hybrid"]
                    ELSE NoWorker]
    /\ stopResolvers = {}
    /\ mainPc = "owner"
    /\ wk = [w \in Slots |-> IF w = 1 THEN NewThread("markdown")
                             ELSE IF w = 2 THEN NewThread("hybrid")
                             ELSE DeadThread]
    /\ inbox = [w \in Slots |-> IF w \in {1, 2}
                                THEN << MainMsg("init", NoJob, 0) >>
                                ELSE << >>]
    /\ outbox = [w \in Slots |-> << >>]
    /\ hist = NoHistory

\* The owner posts { type: "assign", job } to worker w.
OwnerAssign(w, waitUntilMs) ==
    /\ mainPc = "owner"
    /\ workers[w].present
    /\ wk[w].phase # "exited"
    /\ nextJobId <= MaxWorkerJobs
    /\ inbox[w] = << >>
    /\ inbox' = [inbox EXCEPT ![w] =
                   << MainMsg("assign",
                              [jobId |-> nextJobId, url |-> Url(1, 0), depth |-> 0,
                               canGoDeeper |-> FALSE, waitUntilMs |-> waitUntilMs],
                              nextJobId) >>]
    /\ nextJobId' = nextJobId + 1
    /\ UNCHANGED << configVars, now, markdownQueue, hybridQueue, jobMap, knownUrls,
                    visited, failures, idleMarkdown, idleHybrid,
                    nextAllowedByOrigin, savedCount, inFlightCount,
                    processedCount, isDone,
                    workers, stopResolvers, mainPc, wk, outbox, hist >>

\* The owner calls pool.stopWorker(w).
OwnerStop(w) ==
    /\ mainPc = "owner"
    /\ workers[w].present
    /\ ~workers[w].stopping
    /\ SetSched(stopWorker(Sched, w))
    /\ UNCHANGED << configVars, now, mainPc, wk, outbox >>

\* The owner takes worker w's next message; htmlInsufficient is answered as
\* handleHtmlInsufficient answers it, stopped as handleStopped.
OwnerReceive(w) ==
    /\ mainPc = "owner"
    /\ outbox[w] # << >>
    /\ SetSched(IF Head(outbox[w]).type = "htmlInsufficient"
                THEN handleHtmlInsufficient(Sched, w, Head(outbox[w]))
                ELSE IF Head(outbox[w]).type = "stopped"
                THEN handleStopped(Sched, w)
                ELSE Sched)
    /\ outbox' = [outbox EXCEPT ![w] = Tail(@)]
    /\ UNCHANGED << configVars, now, mainPc, wk >>

NextWorker ==
    \/ \E w \in {1, 2}, d \in {0, 1} : OwnerAssign(w, d)
    \/ \E w \in {1, 2} : OwnerStop(w)
    \/ \E w \in {1, 2} : OwnerReceive(w)
    \/ \E w \in {1, 2} : WorkerReceive(w)
    \/ \E w \in {1, 2} : WorkerStartFetch(w)
    \/ \E w \in {1, 2}, o \in {"completed", "failed", "markdownUnavailable",
                                "htmlInsufficient"} : WorkerJobOutcome(w, o)
    \/ \E w \in {1, 2}, o \in {"completed", "failed"} : WorkerRenderOutcome(w, o)
    \/ \E w \in {1, 2} : WorkerInactivity(w)
    \/ ClockTick

SpecWorker == InitWorker /\ [][NextWorker]_vars

\* -------------------------------------------------- fetchWithRetries alone
\* What one call of fetch can come to: a 2xx response, a response with another
\* status, a network failure, or the abort of the timeout.
Responses == {"ok", "http", "network", "timeout"}

\* network.fetchWithTimeout: it returns the text of a 2xx response and throws
\* on everything else (fetch rejected, aborted, or !response.ok).
fetchWithTimeout(response) ==
    IF response = "ok" THEN "returned" ELSE "thrown"

\* One pass of the while loop of network.fetchWithRetries; h is the call's
\* state: attempt, the responses seen, and how the call has ended.
fetchLoop(h, response) ==
    IF fetchWithTimeout(response) = "returned"
    THEN [h EXCEPT !.log = Append(@, response), !.result = "returned"]
    ELSE LET attempt == h.attempt + 1
         IN [h EXCEPT !.log = Append(@, response),
                      !.attempt = attempt,
                      !.result = IF attempt > options.retries
                                 THEN "thrown" ELSE "pending"]

\* One call of fetchWithRetries, for a URL that isBlockedDownloadUrl refuses
\* (.css, .js) or not, with options.retries from 0..MaxRetries.
InitFetch ==
    /\ \E r \in 0..MaxRetries : options = [retries |-> r]
    /\ site = FanSite
    /\ robotsPolicy = AllowAll
    /\ now = 0
    /\ markdownQueue = << >>
    /\ hybridQueue = << >>
    /\ jobMap = {}
    /\ knownUrls = {}
    /\ visited = {}
    /\ failures = << >>
    /\ idleMarkdown = << >>
    /\ idleHybrid = << >>
    /\ nextAllowedByOrigin = [o \in Origins |-> 0]
    /\ savedCount = 0
    /\ inFlightCount = 0
    /\ processedCount = 0
    /\ isDone = FALSE
    /\ nextJobId = 1
    /\ workers = [w \in Slots |-> NoWorker]
    /\ stopResolvers = {}
    /\ mainPc = "fetchWithRetries"
    /\ wk = [w \in Slots |-> DeadThread]
    /\ inbox = [w \in Slots |-> << >>]
    /\ outbox = [w \in Slots |-> << >>]
    /\ \E blocked \in BOOLEAN :
          hist = [blocked |-> blocked, attempt |-> 0, log |-> << >>,
                  result |-> "pending"]

\* fetchWithRetries refuses a blocked asset before any attempt.
FetchRefused ==
    /\ mainPc = "fetchWithRetries"
    /\ hist.result = "pending"
    /\ hist.blocked
    /\ hist' = [hist EXCEPT !.result = "thrown"]
    /\ UNCHANGED << configVars, now, schedVars, mainPc, wk, inbox, outbox >>

\* The next attempt of the loop comes to `response`.
FetchAttempt(response) ==
    /\ mainPc = "fetchWithRetries"
    /\ hist.result = "pending"
    /\ ~hist.blocked
    /\ hist.attempt <= options.retries
    /\ hist' = fetchLoop(hist, response)
    /\ UNCHANGED << configVars, now, schedVars, mainPc, wk, inbox, outbox >>

NextFetch ==
    \/ FetchRefused
    \/ \E response \in Responses : FetchAttempt(response)

SpecFetch == InitFetch /\ [][NextFetch]_vars

\* ------------------------------------------------- functions on their own
\* The state around one call of a function that touches none of the crawl's
\* state: pc names the function, h holds its inputs, whether it has returned
\* and, once it has, its result.
CallOf(pc, opts, h) ==
    /\ options = opts
    /\ site = FanSite
    /\ robotsPolicy = AllowAll
    /\ now = 0
    /\ markdownQueue = << >>
    /\ hybridQueue = << >>
    /\ jobMap = {}
    /\ knownUrls = {}
    /\ visited = {}
    /\ failures = << >>
    /\ idleMarkdown = << >>
    /\ idleHybrid = << >>
    /\ nextAllowedByOrigin = [o \in Origins |-> 0]
    /\ savedCount = 0
    /\ inFlightCount = 0
    /\ processedCount = 0
    /\ isDone = FALSE
    /\ nextJobId = 1
    /\ workers = [w \in Slots |-> NoWorker]
    /\ stopResolvers = {}
    /\ mainPc = pc
    /\ wk = [w \in Slots |-> DeadThread]
    /\ inbox = [w \in Slots |-> << >>]
    /\ outbox = [w \in Slots |-> << >>]
    /\ hist = h

\* The call returns: hist takes the result, nothing else changes.
Returns(pc, h) ==
    /\ mainPc = pc
    /\ ~hist.returned
    /\ hist' = [h EXCEPT !.returned = TRUE]
    /\ UNCHANGED << configVars, now, schedVars, mainPc, wk, inbox, outbox >>

NoOptions == [none |-> TRUE]

\* ---------------------------------------- URL utilities and link extraction
\* A pathname is a sequence of tokens: "/", ".", and runs of letters and
\* digits (names such as "a", extensions such as "png").
endsWith(s, suffix) ==
    /\ Len(suffix) <= Len(s)
    /\ SubSeq(s, Len(s) - Len(suffix) + 1, Len(s)) = suffix

\* A scope test without the prefix case: only the scope itself, with or
\* without its slash.
isPathInScopeExact(pathname, scopePath) ==
    \/ scopePath = << "/" >>
    \/ pathname = scopePath
    \/ pathname \o << "/" >> = scopePath
    \/ pathname = scopePath \o << "/" >>

\* utils.isPathInScope
isPathInScope(pathname, scopePath) ==
    IF scopePath = << "/" >>
    THEN TRUE
    ELSE LET sliced == SubSeq(scopePath, 1, Len(scopePath) - 1)
             bareScope == IF endsWith(scopePath, << "/" >>)
                          THEN (IF sliced = << >> THEN << "/" >> ELSE sliced)
                          ELSE scopePath
             normalizedScope == IF bareScope = << "/" >>
                                THEN << "/" >>
                                ELSE bareScope \o << "/" >>
         IN \/ pathname = bareScope
            \/ pathname = normalizedScope
            \/ startsWith(pathname, normalizedScope)

\* The i flag of a regular expression: a token with its letters in lower case.
toLowerCase(token) ==
    CASE token = "PNG" -> "png"
      [] token = "Jpg" -> "jpg"
      [] token = "JS" -> "js"
      [] token = "Css" -> "css"
      [] token = "MD" -> "md"
      [] OTHER -> token

\* constants.BLOCKED_EXTENSIONS_REGEX: the alternatives of its group.
BLOCKED_EXTENSIONS_REGEX ==
    {"png", "jpg", "jpeg", "gif", "svg", "webp", "ico", "pdf", "zip", "tar", "gz",
     "mp4", "mp3", "woff", "woff2", "ttf", "eot"}

\* /\.(ext|...)$/i.test(pathname)
testExtension(extensions, pathname) ==
    /\ Len(pathname) >= 2
    /\ pathname[Len(pathname) - 1] = "."
    /\ toLowerCase(pathname[Len(pathname)]) \in extensions

\* A candidate test that also refuses style sheets and scripts.
isHtmlCandidateNoAssets(pathname) ==
    ~testExtension(BLOCKED_EXTENSIONS_REGEX \cup {"css", "js"}, pathname)

\* utils.isHtmlCandidate, of url.pathname
isHtmlCandidate(pathname) == ~testExtension(BLOCKED_EXTENSIONS_REGEX, pathname)

\* An href of a document, by what new URL(href, base) makes of it: scheme is
\* "http" (http: or https:), "mailto", "fragment" (the href starts with "#")
\* or "invalid" (new URL throws); rooted says that the href starts with "/".
Href(scheme, rooted, origin, pathname, search, hash) ==
    [scheme |-> scheme, rooted |-> rooted, origin |-> origin,
     pathname |-> pathname, search |-> search, hash |-> hash]

\* resolved.hash = ""; resolved.search = ""; resolved.toString()
stripped(target) == [origin |-> target.origin, pathname |-> target.pathname,
                     search |-> FALSE, hash |-> FALSE]

\* Array.from(new Set(results)): first occurrences, in order.
RECURSIVE dedupe(_)
dedupe(results) ==
    IF results = << >>
    THEN << >>
    ELSE LET front == dedupe(SubSeq(results, 1, Len(results) - 1))
             last == results[Len(results)]
         IN IF last \in SeqToSet(front) THEN front ELSE Append(front, last)

\* The body of the loop of links.extractLinksFromDom for one anchor: the
\* results after it.
domAnchor(results, href, scopeOrigin, scopePathPrefix) ==
    IF href.scheme = "invalid"
    THEN results
    ELSE IF href.origin # scopeOrigin
    THEN results
    ELSE IF ~isPathInScope(href.pathname, scopePathPrefix)
    THEN results
    ELSE IF ~isHtmlCandidate(href.pathname)
    THEN results
    ELSE Append(results, stripped(href))

RECURSIVE domLoop(_, _, _, _)
domLoop(results, anchors, scopeOrigin, scopePathPrefix) ==
    IF anchors = << >>
    THEN results
    ELSE domLoop(domAnchor(results, Head(anchors), scopeOrigin, scopePathPrefix),
                 Tail(anchors), scopeOrigin, scopePathPrefix)

\* links.extractLinksFromDom, of the document's a[href] in document order.
extractLinksFromDom(anchors, scopeOrigin, scopePathPrefix) ==
    dedupe(domLoop(<< >>, anchors, scopeOrigin, scopePathPrefix))

\* The null a function returns in place of a URL.
NullUrl == [origin |-> "null", pathname |-> << >>, search |-> FALSE, hash |-> FALSE]

\* links.normalizeHrefTarget: null, or the target with hash and search
\* cleared.
normalizeHrefTarget(href) ==
    IF href.scheme # "http" THEN NullUrl ELSE stripped(href)

\* links.applyScopePathPrefix: null, or the target moved under the scope.
applyScopePathPrefix(href, target, scopePathPrefix) ==
    IF scopePathPrefix = << >> \/ scopePathPrefix = << "/" >>
    THEN NullUrl
    ELSE IF ~href.rooted
    THEN NullUrl
    ELSE IF isPathInScope(target.pathname, scopePathPrefix)
    THEN NullUrl
    ELSE LET scopePrefix == IF endsWith(scopePathPrefix, << "/" >>)
                            THEN SubSeq(scopePathPrefix, 1, Len(scopePathPrefix) - 1)
                            ELSE scopePathPrefix
         IN [origin |-> target.origin, pathname |-> scopePrefix \o target.pathname,
             search |-> FALSE, hash |-> FALSE]

\* extractLinksFromMarkdown.addCandidate: the results after it.
addCandidate(results, href, scopeOrigin, scopePathPrefix) ==
    LET normalized == normalizeHrefTarget(href)
        scoped == IF normalized = NullUrl THEN NullUrl
                  ELSE applyScopePathPrefix(href, normalized, scopePathPrefix)
        target == IF scoped = NullUrl THEN normalized ELSE scoped
    IN IF target = NullUrl
       THEN results
       ELSE IF target.origin # scopeOrigin
       THEN results
       ELSE IF ~isPathInScope(target.pathname, scopePathPrefix)
       THEN results
       ELSE IF ~isHtmlCandidate(target.pathname)
       THEN results
       ELSE SetAdd(results, target)

RECURSIVE markdownLoop(_, _, _, _)
markdownLoop(results, hrefs, scopeOrigin, scopePathPrefix) ==
    IF hrefs = << >>
    THEN results
    ELSE markdownLoop(addCandidate(results, Head(hrefs), scopeOrigin, scopePathPrefix),
                      Tail(hrefs), scopeOrigin, scopePathPrefix)

\* links.extractLinksFromMarkdown, of the hrefs its five scans meet, in the
\* order they meet them.
extractLinksFromMarkdown(hrefs, scopeOrigin, scopePathPrefix) ==
    markdownLoop(<< >>, hrefs, scopeOrigin, scopePathPrefix)

\* The pathnames of the links a page carries, the scopes of a crawl
\* (start.pathname), and the hrefs: an http href of either origin with any
\* pathname, bare or with a query or a hash, root-absolute or not (on the
\* page's own origin), a mailto: href, an href that is only a fragment, and
\* one that new URL cannot parse.
LinkPathnames ==
    { << "/" >>, << "/", "a" >>, << "/", "a", "/", "b" >>, << "/", "b" >>,
      << "/", "a", "/", "b", ".", "png" >>, << "/", "a", "/", "b", ".", "js" >> }

Scopes == { << "/" >>, << "/", "a" >>, << "/", "a", "/" >> }

HttpHrefs ==
    { Href("http", r, o, p, d = "search", d = "hash") :
          r \in BOOLEAN, o \in Origins, p \in LinkPathnames,
          d \in {"bare", "search", "hash"} }

Hrefs ==
    { h \in HttpHrefs : h.rooted => h.origin = "site" }
        \cup { Href(s, FALSE, "site", << "/" >>, FALSE, s = "fragment") :
                  s \in {"mailto", "fragment", "invalid"} }

\* One call of extractLinksFromDom or extractLinksFromMarkdown, for a page of
\* two hrefs and a scope.
InitLinks ==
    \E mode \in {"dom", "markdown"}, first \in Hrefs, second \in Hrefs,
       scope \in Scopes :
        CallOf("extractLinks", NoOptions,
               [mode |-> mode, hrefs |-> << first, second >>, scope |-> scope,
                returned |-> FALSE, result |-> << >>])

ExtractFromDom ==
    /\ hist.mode = "dom"
    /\ Returns("extractLinks",
               [hist EXCEPT !.result =
                   extractLinksFromDom(hist.hrefs, "site", hist.scope)])

ExtractFromMarkdown ==
    /\ hist.mode = "markdown"
    /\ Returns("extractLinks",
               [hist EXCEPT !.result =
                   extractLinksFromMarkdown(hist.hrefs, "site", hist.scope)])

NextLinks == ExtractFromDom \/ ExtractFromMarkdown

SpecLinks == InitLinks /\ [][NextLinks]_vars

\* ------------------------------------------------ companion Markdown URL
\* pathname.toLowerCase().endsWith("." + extension)
endsWithExtension(pathname, extension) ==
    /\ Len(pathname) >= 2
    /\ pathname[Len(pathname) - 1] = "."
    /\ toLowerCase(pathname[Len(pathname)]) = extension

\* originalPath.replace(TRAILING_SLASH_REGEX, ""): every "/" at the end goes.
RECURSIVE trimSlashes(_)
trimSlashes(pathname) ==
    IF pathname # << >> /\ pathname[Len(pathname)] = "/"
    THEN trimSlashes(SubSeq(pathname, 1, Len(pathname) - 1))
    ELSE pathname

LlmsTxt == << "/", "llms", ".", "txt" >>

\* A companion URL that treats a .txt path like any other path.
buildMarkdownCandidateUrlMdOnly(url) ==
    LET originalPath == url.pathname
        trimmed == trimSlashes(originalPath)
    IN [url EXCEPT
          !.hash = FALSE,
          !.pathname =
              IF endsWithExtension(originalPath, "md") THEN originalPath
              ELSE IF trimmed = << >> THEN LlmsTxt
              ELSE IF endsWithExtension(trimmed, "md") THEN trimmed
              ELSE trimmed \o << ".", "md" >>]

\* network.buildMarkdownCandidateUrl
buildMarkdownCandidateUrl(url) ==
    LET parsed == [url EXCEPT !.hash = FALSE]
        originalPath == parsed.pathname
        trimmed == trimSlashes(originalPath)
    IN IF endsWithExtension(originalPath, "md") \/ endsWithExtension(originalPath, "txt")
       THEN parsed
       ELSE IF originalPath = << "/" >> \/ Len(originalPath) = 0
       THEN [parsed EXCEPT !.pathname = LlmsTxt]
       ELSE IF originalPath[Len(originalPath)] = "/"
       THEN (IF Len(trimmed) = 0
             THEN [parsed EXCEPT !.pathname = LlmsTxt]
             ELSE IF endsWithExtension(trimmed, "md")
             THEN [parsed EXCEPT !.pathname = trimmed]
             ELSE [parsed EXCEPT !.pathname = trimmed \o << ".", "md" >>])
       ELSE [parsed EXCEPT !.pathname = originalPath \o << ".", "md" >>]

\* Target URLs: a stem, with or without an extension, with none, one or two
\* slashes behind it, with or without a query and a hash.
TargetUrls ==
    { [origin |-> "site", pathname |-> stem \o ext \o slashes, search |-> q,
       hash |-> h] :
          stem \in { << "/" >>, << "/", "a" >>, << "/", "a", "/", "b" >> },
          ext \in { << >>, << ".", "md" >>, << ".", "MD" >>, << ".", "txt" >>,
                    << ".", "html" >> },
          slashes \in { << >>, << "/" >>, << "/", "/" >> },
          q \in BOOLEAN, h \in BOOLEAN }

InitCompanion ==
    \E url \in TargetUrls :
        CallOf("buildMarkdownCandidateUrl", NoOptions,
               [targetUrl |-> url, returned |-> FALSE, result |-> url])

BuildMarkdownCandidateUrl ==
    Returns("buildMarkdownCandidateUrl",
            [hist EXCEPT !.result = buildMarkdownCandidateUrl(hist.targetUrl)])

NextCompanion == BuildMarkdownCandidateUrl

SpecCompanion == InitCompanion /\ [][NextCompanion]_vars

\* ------------------------------------------------- the autoscaler's targets
\* computeTargets alone, over the inputs of a tick: the lengths of the two
\* queues, the busy workers of each kind, the measured averages and
\* options.concurrency.
MaxPending == 3
MaxBusy == 2
MaxTargetConcurrency == 6

TargetMetrics ==
    {[markdownActiveMs |-> m, hybridActiveMs |-> h, rate |-> r] :
        m \in {0, DEFAULT_MARKDOWN_ACTIVE_MS, 20000},
        h \in {0, DEFAULT_HYBRID_ACTIVE_MS, 20000},
        r \in {[num |-> 0, den |-> 1], [num |-> 1, den |-> 4],
               [num |-> 1, den |-> 1], [num |-> 3, den |-> 2]}}

InitTargets ==
    \E c \in 1..MaxTargetConcurrency, pm \in 0..MaxPending, ph \in 0..MaxPending,
       bm \in 0..MaxBusy, bh \in 0..MaxBusy, metrics \in TargetMetrics :
        CallOf("computeTargets", [concurrency |-> c],
               [pending |-> [pendingMarkdown |-> pm, pendingHybrid |-> ph],
                counts |-> [inFlightMarkdown |-> bm, inFlightHybrid |-> bh],
                metrics |-> metrics,
                returned |-> FALSE,
                result |-> [desiredTotal |-> 0, desiredMarkdown |-> 0,
                            desiredHybrid |-> 0]])

ComputeTargets ==
    Returns("computeTargets",
            [hist EXCEPT !.result = computeTargets(hist.pending, hist.counts,
                                                   hist.metrics, maxTotalWorkers)])

NextTargets == ComputeTargets

SpecTargets == InitTargets /\ [][NextTargets]_vars

\* ------------------------------------------------------------ path scope
\* Strings over the characters "/", "a", "b" that start with "/", up to
\* MaxPathLen characters: the pathnames of URLs and the scopes of crawls.
MaxPathLen == 4

ScopeStrings ==
    UNION { { << "/" >> \o t : t \in [1..n -> {"/", "a", "b"}] } :
                n \in 0..(MaxPathLen - 1) }

InitScope ==
    \E pathname \in ScopeStrings, scopePath \in ScopeStrings :
        CallOf("isPathInScope", NoOptions,
               [pathname |-> pathname, scopePath |-> scopePath,
                returned |-> FALSE, result |-> FALSE])

IsPathInScope ==
    Returns("isPathInScope",
            [hist EXCEPT !.result = isPathInScope(hist.pathname, hist.scopePath)])

NextScope == IsPathInScope

SpecScope == InitScope /\ [][NextScope]_vars

\* ------------------------------------------------------- HTML candidates
\* Pathnames with and without an extension, in either case of letters, the
\* extension at the end or in the middle.
Extensions ==
    BLOCKED_EXTENSIONS_REGEX \cup {"css", "js", "html", "md", "PNG", "Jpg", "JS", "Css"}

CandidatePathnames ==
    LET stems == { << "/" >>, << "/", "a" >>, << "/", "a", "/", "b" >> }
    IN stems
         \cup { stem \o << ".", ext >> : stem \in stems, ext \in Extensions }
         \cup { << "/", "a", ".", ext, "/", "b" >> : ext \in Extensions }

InitCandidate ==
    \E pathname \in CandidatePathnames :
        CallOf("isHtmlCandidate", NoOptions,
               [pathname |-> pathname, returned |-> FALSE, result |-> FALSE])

IsHtmlCandidate ==
    Returns("isHtmlCandidate",
            [hist EXCEPT !.result = isHtmlCandidate(hist.pathname)])

NextCandidate == IsHtmlCandidate

SpecCandidate == InitCandidate /\ [][NextCandidate]_vars

\* ------------------------------------------------------ robots evaluator
\* Rules and pathnames as sequences of characters; every rule starts with
\* "/" (normalizeRulePath), here character 1.
RobotsRules == { <<1>>, <<1, 2>>, <<1, 2, 3>>, <<1, 3>>, <<1, 2, 4>> }

RobotsPathnames == { <<1>>, <<1, 2>>, <<1, 2, 3>>, <<1, 3>>, <<1, 2, 3, 4>> }

\* One evaluation of a pathname under a rule set, and under the rule set
\* with one more Allow rule.
InitRobots ==
    \E allow \in SUBSET RobotsRules, disallow \in SUBSET RobotsRules,
       pathname \in RobotsPathnames, extra \in RobotsRules :
        CallOf("isAllowed", NoOptions,
               [policy |-> [allow |-> allow, disallow |-> disallow, crawlDelayMs |-> 0],
                pathname |-> pathname, extra |-> extra, returned |-> FALSE,
                result |-> FALSE, withExtra |-> FALSE])

Evaluate ==
    Returns("isAllowed",
            [hist EXCEPT
                !.result = isAllowed(hist.policy, hist.pathname),
                !.withExtra =
                    isAllowed([hist.policy EXCEPT !.allow = @ \cup {hist.extra}],
                              hist.pathname)])

NextRobots == Evaluate

SpecRobots == InitRobots /\ [][NextRobots]_vars

\* ------------------------------------------------------- writing a page
\* The files of one page directory: a file maps to its content, "absent"
\* when it does not exist.  (A path outside the map is no file either.)
OutputFiles == {"page.md", "clutter.md", ".llms.md", "llms-full.md"}

\* utils.fileExists: stat throws for a path that is no file.
fileExists(files, path) == path \in DOMAIN files /\ files[path] # "absent"

writeFile(files, path, data) == [files EXCEPT ![path] = data]

\* writeOutputs in the order of its writes; the ScrapeResult is result.
writeOutputs(files, opts, result) ==
    LET paged == writeFile(files, "page.md", result.markdown)
        cluttered ==
            IF opts.clutter /\ result.clutterMarkdown # ""
            THEN writeFile(paged, "clutter.md", result.clutterMarkdown)
            ELSE paged
    IN  IF opts.overwriteLlms
        THEN writeFile(writeFile(cluttered, ".llms.md", result.llmsMarkdown),
                       "llms-full.md", result.llmsFullMarkdown)
        ELSE cluttered

ScrapeResults ==
    {[markdown |-> "page", clutterMarkdown |-> c, llmsMarkdown |-> "llms",
      llmsFullMarkdown |-> "llmsFull"] : c \in {"", "clutter"}}

InitOutputs ==
    \E files \in [OutputFiles -> {"absent", "old"}], result \in ScrapeResults,
       overwriteLlms \in BOOLEAN, clutter \in BOOLEAN :
        CallOf("writeOutputs",
               [overwriteLlms |-> overwriteLlms, clutter |-> clutter],
               [before |-> files, files |-> files, result |-> result,
                returned |-> FALSE])

WriteOutputs ==
    Returns("writeOutputs",
            [hist EXCEPT !.files = writeOutputs(hist.files, options, hist.result)])

NextOutputs == WriteOutputs

SpecOutputs == InitOutputs /\ [][NextOutputs]_vars

\* ------------------------------------------------------- rewriting links
\* In the pathnames of this part a name stands for a whole path segment
\* ("page.md" is one name).
\* pathname.split("/").filter(Boolean)
pathSegments(pathname) == SelectSeq(pathname, LAMBDA t : t # "/")

\* The pathname of a URL whose path has these segments.
RECURSIVE pathnameOf(_)
pathnameOf(segments) ==
    IF segments = << >>
    THEN << "/" >>
    ELSE IF Len(segments) = 1
    THEN << "/", segments[1] >>
    ELSE pathnameOf(SubSeq(segments, 1, Len(segments) - 1))
             \o << "/", segments[Len(segments)] >>

\* utils.sanitizeSegment: runs of other characters become "_", letters lower
\* case.
sanitizeSegment(segment) ==
    CASE segment = "page.md" -> "page_md"
      [] segment = "B" -> "b"
      [] OTHER -> segment

\* utils.buildOutputPaths, below outDir: the directory of a page and its
\* page.md, as sequences of path components.
buildOutputPaths(url) ==
    LET segments == pathSegments(url.pathname)
        pathSegs == [i \in 1..Len(segments) |-> sanitizeSegment(segments[i])]
        finalSegments == IF Len(pathSegs) > 0 THEN pathSegs ELSE << "root" >>
        dir == << sanitizeSegment(url.origin) >> \o finalSegments
    IN [dir |-> dir, pagePath |-> dir \o << "page.md" >>]

\* path.relative(from, to): the number of ".." and the components after them.
pathRelative(from, to) ==
    LET shorter == IF Len(from) < Len(to) THEN Len(from) ELSE Len(to)
        common == CHOOSE c \in 0..shorter :
                      /\ \A i \in 1..c : from[i] = to[i]
                      /\ c = shorter \/ from[c + 1] # to[c + 1]
    IN [up |-> Len(from) - common, names |-> SubSeq(to, common + 1, Len(to))]

\* An href as it stands in a document: form "absolute" is
\* https://<origin>/<names joined by "/">, "rooted" is /<names>, "relative" is
\* <up times "../"><names>, each with "#..." behind it when hash holds;
\* "mailto" is a mailto: address, "fragment" a "#..." alone.
RawHref(form, origin, up, names, hash) ==
    [form |-> form, origin |-> origin, up |-> up, names |-> names, hash |-> hash]

\* The null a function returns in place of an href.
NullHref == RawHref("null", "none", 0, << >>, FALSE)

\* new URL(href, base) for a base without a trailing slash: a relative href
\* replaces the last segment of the base, ".." leaves a directory (never the
\* root).
newURL(href, base) ==
    LET baseSegs == pathSegments(base.pathname)
        baseDir == SubSeq(baseSegs, 1, Len(baseSegs) - 1)
        kept == IF href.up >= Len(baseDir) THEN << >>
                ELSE SubSeq(baseDir, 1, Len(baseDir) - href.up)
    IN CASE href.form = "absolute" ->
                Href("http", FALSE, href.origin, pathnameOf(href.names), FALSE, href.hash)
         [] href.form = "rooted" ->
                Href("http", TRUE, base.origin, pathnameOf(href.names), FALSE, href.hash)
         [] href.form = "relative" ->
                Href("http", FALSE, base.origin, pathnameOf(kept \o href.names),
                     FALSE, href.hash)
         [] href.form = "fragment" ->
                Href("fragment", FALSE, base.origin, base.pathname, FALSE, TRUE)
         [] OTHER -> Href("mailto", FALSE, base.origin, << "/" >>, FALSE, FALSE)

\* A resolveLinkToRelative that does not look at the link hints of the job.
resolveLinkToRelativeNoHints(href, currentUrl, known, linkHints, disk, scopePathPrefix, keepHash) ==
    LET parsed == newURL(href, currentUrl)
        initialTarget == normalizeHrefTarget(parsed)
        scoped == applyScopePathPrefix(parsed, initialTarget, scopePathPrefix)
        scopedTarget == IF scoped = NullUrl THEN initialTarget ELSE scoped
        targetPagePath == buildOutputPaths(scopedTarget).pagePath
        relativePath == pathRelative(buildOutputPaths(currentUrl).dir, targetPagePath)
    IN IF initialTarget = NullUrl
       THEN NullHref
       ELSE IF stripped(scopedTarget) \notin known /\ ~fileExists(disk, targetPagePath)
       THEN NullHref
       ELSE RawHref("relative", "none", relativePath.up, relativePath.names,
                    keepHash /\ parsed.hash)

\* links.resolveLinkToRelative without linkBaseUrl: null, or the href of the
\* target's page.md as seen from the directory of the current page.
resolveLinkToRelative(href, currentUrl, known, linkHints, disk, scopePathPrefix, keepHash) ==
    LET parsed == newURL(href, currentUrl)
        initialTarget == normalizeHrefTarget(parsed)
        anchor == keepHash /\ parsed.hash
        scoped == applyScopePathPrefix(parsed, initialTarget, scopePathPrefix)
        scopedTarget == IF scoped = NullUrl THEN initialTarget ELSE scoped
        normalizedTarget == stripped(scopedTarget)
        targetPagePath == buildOutputPaths(scopedTarget).pagePath
        targetExists == \/ normalizedTarget \in known
                        \/ normalizedTarget \in linkHints
                        \/ fileExists(disk, targetPagePath)
        currentPageDir == buildOutputPaths(currentUrl).dir
        relativePath == pathRelative(currentPageDir, targetPagePath)
    IN IF initialTarget = NullUrl
       THEN NullHref
       ELSE IF ~targetExists
       THEN NullHref
       ELSE RawHref("relative", "none", relativePath.up, relativePath.names, anchor)

\* A link text is a sequence of tokens: a word, white space, the external
\* marker (U+2197), or a bare URL standing in the text.
Token(kind, href) == [kind |-> kind, href |-> href]

Word == Token("word", NullHref)

Space == Token("space", NullHref)

EXTERNAL_MARKER == Token("marker", NullHref)

RECURSIVE trimEnd(_)
trimEnd(text) ==
    IF text # << >> /\ text[Len(text)] = Space
    THEN trimEnd(SubSeq(text, 1, Len(text) - 1))
    ELSE text

\* links.withExternalMarker
withExternalMarker(text) ==
    LET trimmed == trimEnd(text)
    IN IF trimmed # << >> /\ trimmed[Len(trimmed)] = EXTERNAL_MARKER
       THEN text
       ELSE text \o << Space, EXTERNAL_MARKER >>

\* links.removeExternalMarker: EXTERNAL_MARKER_REGEX takes the last marker,
\* with the white space around it, off the end of the text.
removeExternalMarker(text) ==
    LET trimmed == trimEnd(text)
    IN IF trimmed # << >> /\ trimmed[Len(trimmed)] = EXTERNAL_MARKER
       THEN trimEnd(SubSeq(trimmed, 1, Len(trimmed) - 1))
       ELSE trimmed

\* links.normalizeLinkLabel
normalizeLinkLabel(text, external) ==
    IF external THEN withExternalMarker(text) ELSE removeExternalMarker(text)

\* links.isExternalLink without linkBaseUrl
isExternalLink(href, currentUrl) ==
    LET target == newURL(href, currentUrl)
    IN IF target.scheme # "http" THEN FALSE ELSE target.origin # currentUrl.origin

\* A piece of a Markdown body: an inline link [text](href), a reference
\* definition [text]: href, or a bare URL href in running text.
Item(kind, text, href) == [kind |-> kind, text |-> text, href |-> href]

\* What the rewriter is called with besides the Markdown: c.currentUrl,
\* c.known, c.linkHints, c.scopePathPrefix, and the pages on disk c.disk.
\* The body of the loop of links.rewriteInlineMarkdownLinks for one match.
rewriteInlineMarkdownLinks(item, c) ==
    LET replacement == resolveLinkToRelative(item.href, c.currentUrl, c.known,
                           c.linkHints, c.disk, c.scopePathPrefix, TRUE)
        displayText == IF replacement # NullHref
                       THEN removeExternalMarker(item.text)
                       ELSE normalizeLinkLabel(item.text,
                                isExternalLink(item.href, c.currentUrl))
    IN IF item.kind # "inline"
       THEN item
       ELSE IF replacement # NullHref
       THEN Item("inline", displayText, replacement)
       ELSE Item("inline", displayText, item.href)

\* The body of the loop of links.rewriteReferenceMarkdownLinks for one match.
rewriteReferenceMarkdownLinks(item, c) ==
    LET replacement == resolveLinkToRelative(item.href, c.currentUrl, c.known,
                           c.linkHints, c.disk, c.scopePathPrefix, TRUE)
    IN IF item.kind # "reference"
       THEN item
       ELSE IF replacement # NullHref
       THEN Item("reference", item.text, replacement)
       ELSE item

\* links.rewriteLinksInMarkdown
rewriteLinksInMarkdown(item, c) ==
    rewriteReferenceMarkdownLinks(rewriteInlineMarkdownLinks(item, c), c)

\* links.shouldSkipBareUrl: a URL inside an inline link (its text or its
\* href) or on the line of a reference definition is left alone.
shouldSkipBareUrl(item) == item.kind # "bare"

\* links.linkifyBareUrlsInLine for one match of BARE_URL_REGEX.
linkifyBareUrlsInLine(item, c) ==
    LET replacement == resolveLinkToRelative(item.href, c.currentUrl, c.known,
                           c.linkHints, c.disk, c.scopePathPrefix, TRUE)
    IN IF shouldSkipBareUrl(item)
       THEN item
       ELSE IF replacement # NullHref
       THEN Item("inline", << Token("url", item.href) >>, replacement)
       ELSE item

\* links.rewriteMarkdownContent, of a body
rewriteMarkdownContent(item, c) ==
    linkifyBareUrlsInLine(rewriteLinksInMarkdown(item, c), c)

\* The URLs, hrefs, texts and pieces of the documents rewritten here.
RewritePaths ==
    { << >>, << "a" >>, << "a", "b" >>, << "b" >>, << "b", "page.md" >> }

PageUrl(origin, names) ==
    [origin |-> origin, pathname |-> pathnameOf(names), search |-> FALSE,
     hash |-> FALSE]

RewriteUrls == { PageUrl(o, p) : o \in Origins, p \in RewritePaths }

RawHrefs ==
    { RawHref("absolute", o, 0, p, h) :
          o \in Origins, p \in RewritePaths, h \in BOOLEAN }
        \cup { RawHref("rooted", "none", 0, p, FALSE) : p \in {<< "b" >>, << "a", "b" >>} }
        \cup { RawHref("relative", "none", 0, p, FALSE) :
                  p \in {<< "b" >>, << "b", "page.md" >>} }
        \cup { RawHref(f, "none", 0, << >>, f = "fragment") :
                  f \in {"mailto", "fragment"} }

Texts ==
    { << Word >>, << Word, Space >>, << Word, Space, EXTERNAL_MARKER >>,
      << Word, Space, EXTERNAL_MARKER, Space, EXTERNAL_MARKER >> }

Items ==
    { Item("inline", t, h) : t \in Texts, h \in RawHrefs }
        \cup { Item("reference", << Word >>, h) : h \in RawHrefs }
        \cup { Item("bare", << >>, h) : h \in {r \in RawHrefs : r.form = "absolute"} }

KnownSets ==
    { {} } \cup { {u} : u \in RewriteUrls }
           \cup { {u, PageUrl("site", << "b", "page.md" >>)} : u \in RewriteUrls }

Calls ==
    { [currentUrl |-> PageUrl("site", p), known |-> k, linkHints |-> lh,
       disk |-> [path \in d |-> "old"], scopePathPrefix |-> sc] :
          p \in {<< "a" >>, << "a", "b" >>}, k \in KnownSets,
          lh \in { {}, {PageUrl("site", << "a", "b" >>)}, {PageUrl("other", << "b" >>)} },
          d \in { {}, {buildOutputPaths(PageUrl("site", << "b" >>)).pagePath} },
          sc \in { << >>, << "/", "a" >> } }

\* The rewriter is run over a piece, and again over what it returned.
MaxPasses == 2

InitRewrite ==
    \E item \in Items, c \in Calls :
        CallOf("rewriteMarkdownContent", NoOptions,
               [call |-> c, input |-> item, previous |-> item, markdown |-> item,
                replacement |-> NullHref, passes |-> 0])

RewriteMarkdownContent ==
    /\ mainPc = "rewriteMarkdownContent"
    /\ hist.passes < MaxPasses
    /\ hist' = [hist EXCEPT
                   !.previous = hist.markdown,
                   !.markdown = rewriteMarkdownContent(hist.markdown, hist.call),
                   !.replacement =
                       LET c == hist.call
                       IN resolveLinkToRelative(hist.markdown.href, c.currentUrl,
                              c.known, c.linkHints, c.disk, c.scopePathPrefix, TRUE),
                   !.passes = hist.passes + 1]
    /\ UNCHANGED << configVars, now, schedVars, mainPc, wk, inbox, outbox >>

NextRewrite == RewriteMarkdownContent

SpecRewrite == InitRewrite /\ [][NextRewrite]_vars

\* ------------------------------------------------------- output paths
\* The pages of two jobs of one run: what normalizeForQueue makes of their
\* URLs (the key of knownUrls and visited) and where writeOutputs puts their
\* page.md.
\* utils.normalizeForQueue on a parsed URL: hash and search cleared; the
\* pathname stays as it is, trailing slash and case of letters included.
normalizeForQueueString(url) == [url EXCEPT !.hash = FALSE, !.search = FALSE]

SavedNames ==
    { << >>, << "a" >>, << "b" >>, << "B" >>, << "a", "b" >>, << "a", "B" >>,
      << "page.md" >>, << "page_md" >>, << "root" >> }

SavedUrls ==
    { [origin |-> o,
       pathname |-> IF slash /\ names # << >>
                    THEN pathnameOf(names) \o << "/" >>
                    ELSE pathnameOf(names),
       search |-> q, hash |-> FALSE] :
        o \in Origins, names \in SavedNames, slash \in BOOLEAN, q \in BOOLEAN }

InitPaths ==
    \E first \in SavedUrls, second \in SavedUrls :
        CallOf("buildOutputPaths", NoOptions,
               [first |-> first, second |-> second, returned |-> FALSE,
                pagePaths |-> << << >>, << >> >>])

BuildOutputPaths ==
    Returns("buildOutputPaths",
            [hist EXCEPT !.pagePaths = << buildOutputPaths(hist.first).pagePath,
                                          buildOutputPaths(hist.second).pagePath >>])

NextPaths == BuildOutputPaths

SpecPaths == InitPaths /\ [][NextPaths]_vars

\* ------------------------------------------------------------- properties
QueuesEmpty == Len(markdownQueue) = 0 /\ Len(hybridQueue) = 0

\* The messages of the workers that the scheduler has not handled yet.
Posted == UNION {SeqToSet(outbox[w]) : w \in Slots}

\* C3: savedCount + inFlightCount never exceeds maxPages.
PageCapHolds == savedCount + inFlightCount <= options.maxPages

\* The cap holds a queued job back: saved and in-flight pages fill maxPages
\* while a job waits in the queue and a markdown worker is idle.
PageCapReached ==
    /\ inFlightCount >= 1
    /\ savedCount + inFlightCount = options.maxPages
    /\ Len(markdownQueue) > 0
    /\ Len(idleMarkdown) > 0

\* C5: between two handlers isDone is true exactly when savedCount has reached
\* maxPages or nothing is in flight and both queues are empty.
DoneIffCapOrDrained ==
    isDone <=> (savedCount >= options.maxPages \/ (inFlightCount = 0 /\ QueuesEmpty))

\* The run is done because it has drained, below the cap, after a failure.
DoneByDrain ==
    /\ isDone
    /\ 0 < savedCount
    /\ savedCount < options.maxPages
    /\ Len(failures) > 0

\* C6: every job has depth <= maxDepth and canGoDeeper = (depth < maxDepth), a
\* job that cannot go deeper reports no links, and with maxDepth 0 no page but
\* the seed is ever assigned.
DepthBounded ==
    /\ \A j \in jobMap : /\ j.depth <= options.maxDepth
                         /\ j.canGoDeeper = (j.depth < options.maxDepth)
    /\ \A m \in Posted :
          (m.type = "completed" /\ m.depth >= options.maxDepth)
              => m.discoveredLinks = << >>
    /\ options.maxDepth = 0 =>
          \A p \in Pages \ {1} :
              hist.assignedMarkdown[p] = 0 /\ hist.assignedHybrid[p] = 0

\* A page at depth maxDepth > 0 that has links is reported completed.
DeepestPageCompleted ==
    \E m \in Posted : /\ m.type = "completed"
                      /\ m.depth = options.maxDepth
                      /\ m.depth > 0
                      /\ site[m.url.page] # << >>

\* C2: no page (a URL with hash and query stripped) is assigned to a markdown
\* worker more than once, and no page is written more than once.
NoDuplicateWork ==
    \A p \in Pages : hist.assignedMarkdown[p] <= 1 /\ hist.written[p] <= 1

\* The seed carries a hash, the seed's page is met again as a link of page 2,
\* and the scheduler has handled that link.
SeedMetAgain ==
    /\ options.crawlStart.frag = 1
    /\ options.maxDepth >= 2
    /\ hist.written[1] = 1
    /\ hist.written[2] = 1
    /\ savedCount >= 2
    /\ site[2][1] = 1

\* The pages within maxDepth links of the seed.
RECURSIVE Within(_)
Within(d) ==
    IF d = 0
    THEN {1}
    ELSE LET near == Within(d - 1)
         IN near \cup {q \in Pages : \E p \in near : q \in SeqToSet(site[p])}

Reachable == Within(options.maxDepth)

RECURSIVE SumTo(_, _)
SumTo(f, n) == IF n = 0 THEN 0 ELSE f[n] + SumTo(f, n - 1)

Sum(f) == SumTo(f, NPages)

\* C7: a page the robots policy disallows is never assigned, written or
\* failed, and dropping it moves no counter: inFlightCount stays the number of
\* assignments minus the outcomes handled.
DisallowedOnlyDropped ==
    /\ \A p \in Pages :
          ~isAllowed(robotsPolicy, PathOf(Url(p, 0))) =>
              /\ hist.assignedMarkdown[p] = 0
              /\ hist.assignedHybrid[p] = 0
              /\ hist.written[p] = 0
              /\ \A i \in 1..Len(failures) : failures[i].page # p
    /\ hist.blocked \subseteq
          {p \in Pages : ~isAllowed(robotsPolicy, PathOf(Url(p, 0)))}
    /\ inFlightCount =
          Sum(hist.assignedMarkdown) + Sum(hist.assignedHybrid)
              - savedCount - Len(failures) - hist.unavailable

\* A disallowed page has been dropped in a crawl that saves other pages.
DisallowedDropped == hist.blocked # {} /\ savedCount > 0

\* The places a job can be in: the positions it takes in the two queues and
\* the workers of the pool whose currentJobId it is.
QueuePlaces(queue, j) == Cardinality({i \in 1..Len(queue) : queue[i] = j})

Holders(j) == {w \in Slots : workers[w].present /\ workers[w].currentJobId = j.jobId}

Places(j) ==
    QueuePlaces(markdownQueue, j) + QueuePlaces(hybridQueue, j)
        + Cardinality(Holders(j))

\* C8: every job of jobMap is in exactly one place.
JobInOnePlace == \A j \in jobMap : Places(j) = 1

\* No job is in two places (two workers, two queue positions, or a queue and
\* a worker).
JobInAtMostOnePlace ==
    /\ \A j \in jobMap : Places(j) <= 1
    /\ SeqToSet(markdownQueue) \cup SeqToSet(hybridQueue) \subseteq jobMap

\* C10: a worker that has started its fetch started it when the clock had
\* reached the job's waitUntilMs, and the waitUntilMs of every job a worker
\* holds or is being sent is the one the scheduler computed when it assigned
\* the job to that worker.
FetchAfterDeadline ==
    \A w \in Slots :
        /\ wk[w].stage = "fetch" => wk[w].fetchAt >= wk[w].activeJob.waitUntilMs
        /\ wk[w].activeJob # NoJob => wk[w].activeJob.waitUntilMs = hist.waitUntil[w]
        /\ \A i \in 1..Len(inbox[w]) :
              inbox[w][i].type = "assign"
                  => inbox[w][i].job.waitUntilMs = hist.waitUntil[w]

\* A worker fetches a job whose deadline lay ahead of the clock at assignment.
FetchedAfterWaiting ==
    \E w \in Slots : /\ wk[w].stage = "fetch"
                     /\ wk[w].activeJob.waitUntilMs > 0
                     /\ wk[w].fetchAt = wk[w].activeJob.waitUntilMs

\* C9: on each origin every deadline is at least delayMs after the one
\* returned before it, and an origin's next deadline depends on nothing but
\* the last deadline returned for that origin.
DeadlinesSpaced ==
    \A o \in Origins :
        /\ hist.prev[o] >= 0 => hist.last[o] >= hist.prev[o] + options.delayMs
        /\ nextAllowedByOrigin[o] =
              IF hist.last[o] < 0 THEN 0 ELSE hist.last[o] + options.delayMs

\* Two calls on the site's origin were spaced by the limiter, not by the
\* clock, with a call for the other origin made as well.
SpacedByLimiter ==
    /\ hist.prev["site"] >= 0
    /\ hist.last["site"] = hist.prev["site"] + options.delayMs
    /\ hist.last["site"] > MaxRateClock
    /\ hist.last["other"] >= 0

\* C11: with delayMs > 0, any two requests to the site's origin in one run
\* (the fetch of runJob, the page load of runRender) start at least delayMs
\* apart.
FetchStartsSpaced == options.delayMs > 0 => ~hist.fetchTooClose

\* The job a hybrid worker keeps for a headless render: the one it reported
\* htmlInsufficient, or the one it renders.
renderHeld(t) == IF t.pendingRenderJob # NoJob THEN t.pendingRenderJob ELSE t.renderJob

\* The jobs worker w has been sent and has not looked at yet.
jobsSent(w) ==
    {inbox[w][i].job.jobId : i \in {k \in 1..Len(inbox[w]) : inbox[w][k].type = "assign"}}

\* C12: from a hybrid worker's htmlInsufficient to the job's completed or
\* failed, the job stays on that worker and nowhere else, the worker takes and
\* is sent no other job, the render request for the job goes to that worker
\* (once), and handling htmlInsufficient leaves inFlightCount alone.
RenderPinned ==
    /\ [](\A w \in Slots :
            renderHeld(wk[w]) # NoJob =>
                /\ wk[w].activeJob = NoJob
                /\ jobsSent(w) = {}
                /\ workers[w].present
                /\ workers[w].currentJobId = renderHeld(wk[w]).jobId
                /\ ~workers[w].idle
                /\ \A v \in Slots \ {w} :
                      /\ workers[v].currentJobId # renderHeld(wk[w]).jobId
                      /\ wk[v].activeJob.jobId # renderHeld(wk[w]).jobId
                      /\ renderHeld(wk[v]).jobId # renderHeld(wk[w]).jobId
                /\ \A i \in 1..Len(hybridQueue) :
                      hybridQueue[i].jobId # renderHeld(wk[w]).jobId
                /\ inFlightCount >= 1
                /\ wk[w].pendingRenderJob # NoJob =>
                      Cardinality(
                          {i \in 1..Len(outbox[w]) :
                               /\ outbox[w][i].type = "htmlInsufficient"
                               /\ outbox[w][i].jobId = renderHeld(wk[w]).jobId})
                      + Cardinality(
                          {i \in 1..Len(inbox[w]) :
                               /\ inbox[w][i].type = "renderWithPlaywright"
                               /\ inbox[w][i].jobId = renderHeld(wk[w]).jobId})
                      = 1)
    /\ [][\A w \in Slots :
             (/\ outbox[w] # << >>
              /\ Head(outbox[w]).type = "htmlInsufficient"
              /\ outbox'[w] = Tail(outbox[w]))
                 => inFlightCount' = inFlightCount]_vars

\* A hybrid worker renders its job while another job waits in a queue.
RenderingWhileQueued ==
    \E w \in Slots :
        /\ wk[w].renderJob # NoJob
        /\ workers[w].currentJobId = wk[w].renderJob.jobId
        /\ Len(markdownQueue) + Len(hybridQueue) > 0

\* A queue after a step, against the queue before it: jobs have left at the
\* head only, and every job that was not in it before stands behind those
\* that were.
FifoStep(before, after) ==
    \E k \in 0..Len(before) :
        LET kept == SubSeq(before, k + 1, Len(before))
        IN /\ Len(after) >= Len(kept)
           /\ SubSeq(after, 1, Len(kept)) = kept
           /\ \A i \in (Len(kept) + 1)..Len(after) : after[i] \notin SeqToSet(before)

\* C13: each queue is first in, first out: a step takes jobs from its head and
\* adds jobs at its tail; a job reported markdownUnavailable that is in
\* hybridQueue after its message has been handled is the last one there.
QueuesFifo ==
    [][/\ FifoStep(markdownQueue, markdownQueue')
       /\ FifoStep(hybridQueue, hybridQueue')
       /\ \A w \in Slots :
             (/\ outbox[w] # << >>
              /\ Head(outbox[w]).type = "markdownUnavailable"
              /\ outbox'[w] = Tail(outbox[w]))
                 => \A i \in 1..Len(hybridQueue') :
                        hybridQueue'[i].jobId = Head(outbox[w]).jobId
                            => i = Len(hybridQueue')]_vars

\* Two jobs that fell back from markdown wait in hybridQueue, the later one
\* behind the earlier.
TwoFellBackQueued == Len(hybridQueue) >= 2 /\ hist.unavailable >= 2

\* C14: a page is assigned to a hybrid worker at most once, and only after it
\* was assigned to a markdown worker and reported markdownUnavailable; only
\* jobs that fell back stand in hybridQueue, and they stand in it once.
MarkdownFirst ==
    /\ \A p \in Pages :
          /\ hist.assignedHybrid[p] <= 1
          /\ hist.assignedHybrid[p] = 1 =>
                 hist.assignedMarkdown[p] = 1 /\ p \in hist.fellBack
          /\ p \in hist.fellBack => hist.assignedMarkdown[p] = 1
    /\ \A i \in 1..Len(hybridQueue) :
          /\ hybridQueue[i].url.page \in hist.fellBack
          /\ hist.assignedHybrid[hybridQueue[i].url.page] = 0
          /\ \A k \in 1..Len(hybridQueue) :
                hybridQueue[k].url.page = hybridQueue[i].url.page => k = i

\* A job that fell back has been written by a hybrid worker while another
\* page went through a markdown worker alone.
FellBackThenHybrid ==
    \E p, q \in Pages :
        /\ p \in hist.fellBack
        /\ hist.assignedHybrid[p] = 1
        /\ hist.written[p] = 1
        /\ q \notin hist.fellBack
        /\ hist.written[q] = 1

\* A terminal outcome of job j, followed by stopped.
OutcomeThenStopped(j) ==
    { << [type |-> o, jobId |-> j.jobId, url |-> j.url, depth |-> j.depth,
          discoveredLinks |-> << >>],
         WorkerMsg("stopped", NoJob, << >>) >> :
        o \in {"completed", "failed", "markdownUnavailable"} }

\* C15: a worker that holds a job (one it waits for, fetches, keeps for a
\* render or renders) exits only by posting the job's terminal outcome and
\* then stopped.
StopAfterOutcome ==
    [][\A w \in Slots :
          \A j \in {wk[w].activeJob, renderHeld(wk[w])} \ {NoJob} :
              wk'[w].phase = "exited" =>
                  \E tail \in OutcomeThenStopped(j) : outbox'[w] = outbox[w] \o tail]_vars

\* Under runCrawlWithWorkers no stop is on its way to, or has been taken by, a
\* worker that holds a job: the autoscaler stops idle workers only, and
\* stopAll runs once nothing is in flight.
NoStopWithJob ==
    \A w \in Slots :
        (wk[w].activeJob # NoJob \/ renderHeld(wk[w]) # NoJob) =>
            /\ ~wk[w].stopRequested
            /\ \A i \in 1..Len(inbox[w]) : inbox[w][i].type # "stop"

\* The workers of the pool.
Pool == {w \in Slots : workers[w].present}

\* C16: stopAll marks every worker of the pool as stopping, posts stop to each
\* one whose thread still runs and waits for each; while it waits, the workers
\* it waits for are those still in the pool; it returns with the pool empty.
StopAllEmptiesPool ==
    /\ [](/\ mainPc = "stopping" => stopResolvers = Pool
          /\ mainPc = "finished" => Pool = {} /\ stopResolvers = {})
    /\ [][(mainPc = "running" /\ mainPc' = "stopping") =>
             /\ Pool' = Pool
             /\ \A w \in Pool :
                   /\ workers'[w].stopping
                   /\ \/ wk[w].phase = "exited"
                      \/ inbox'[w] = Append(inbox[w], MainMsg("stop", NoJob, 0))]_vars

\* stopAll has returned in a crawl that saved two pages and lost one worker to
\* its inactivity timer on the way.
StoppedAllAfterWork ==
    /\ mainPc = "finished"
    /\ Pool = {}
    /\ savedCount >= 2
    /\ hist.timeouts >= 1

\* C17: the pool, workers that were told to stop and have not yet reported
\* stopped included, never holds more than maxTotalWorkers workers.
PoolWithinMax == Cardinality({w \in Slots : workers[w].present}) <= maxTotalWorkers

\* The workers of a kind that are in the pool and have not been told to stop.
Serving(kind) ==
    {w \in Slots : workers[w].present /\ workers[w].kind = kind /\ ~workers[w].stopping}

\* C18: while the crawl is not done and a queue is non-empty or a job is in
\* flight, the pool has at least MIN_WORKERS_PER_KIND workers of each kind that
\* have not been told to stop.
BothKindsWhileWork ==
    (~isDone /\ (~QueuesEmpty \/ inFlightCount > 0)) =>
        /\ Cardinality(Serving("markdown")) >= MIN_WORKERS_PER_KIND
        /\ Cardinality(Serving("hybrid")) >= MIN_WORKERS_PER_KIND

\* C19: the scheduler answers a worker's stopped message by taking the worker
\* out of the pool and changing nothing else (queues, jobMap, counters, the
\* other workers, messages to workers), and a job of jobMap that is in no queue
\* and on no worker of the pool stays in jobMap, in no queue and on no worker.
StoppedWorkerJobDropped ==
    [][/\ \A w \in Slots :
             (/\ outbox[w] # << >>
              /\ Head(outbox[w]).type = "stopped"
              /\ outbox'[w] = Tail(outbox[w]))
                 => /\ ~workers'[w].present
                    /\ \A v \in Slots \ {w} : workers'[v] = workers[v]
                    /\ UNCHANGED << markdownQueue, hybridQueue, jobMap, visited,
                                    knownUrls, failures, savedCount,
                                    inFlightCount, isDone, inbox >>
       /\ \A j \in jobMap :
             Places(j) = 0 => j \in jobMap' /\ Places(j)' = 0]_vars

\* C20: fetchWithRetries makes at most retries + 1 attempts, every attempt
\* but the last ended in a network failure or a timeout, and a response with a
\* non-2xx status ends the call, thrown, at once.
OnlyTransportRetried ==
    /\ Len(hist.log) <= options.retries + 1
    /\ \A i \in 1..Len(hist.log) :
          /\ i < Len(hist.log) => hist.log[i] \in {"network", "timeout"}
          /\ hist.log[i] = "http" => hist.result = "thrown"

\* fetchWithRetries makes at most retries + 1 attempts, and none after a 2xx
\* response.
AttemptsBounded ==
    /\ Len(hist.log) <= options.retries + 1
    /\ \A i \in 1..Len(hist.log) : i < Len(hist.log) => hist.log[i] # "ok"
    /\ hist.result = "thrown" =>
          \/ hist.blocked /\ hist.log = << >>
          \/ Len(hist.log) = options.retries + 1

\* The first message worker w posts in a step.
firstPosted(w) == outbox'[w][Len(outbox[w]) + 1]

\* C21: a markdown worker whose fetch of the companion URL ended in a non-2xx
\* response, a body without text, or a failed last retry posts
\* markdownUnavailable, not failed; handling that message leaves savedCount and
\* failures alone, keeps the job in jobMap and puts it at the tail of
\* hybridQueue (from where a hybrid worker may take it at once).
UnavailableNotFailed ==
    [][\A w \in Slots :
          /\ (/\ wk[w].kind = "markdown"
              /\ wk[w].stage = "fetch"
              /\ wk'[w].stage # "fetch"
              /\ wk[w].lastResponse \in {"empty", "http404", "http500", "network"})
                 => firstPosted(w).type = "markdownUnavailable"
          /\ (/\ outbox[w] # << >>
              /\ Head(outbox[w]).type = "markdownUnavailable"
              /\ outbox'[w] = Tail(outbox[w]))
                 => /\ savedCount' = savedCount
                    /\ failures' = failures
                    /\ jobMap' = jobMap
                    /\ \E j \in jobMap :
                          /\ j.jobId = Head(outbox[w]).jobId
                          /\ j.url = Head(outbox[w]).url
                          /\ QueuePlaces(markdownQueue', j) = 0
                          /\ \/ /\ hybridQueue' # << >>
                                /\ hybridQueue'[Len(hybridQueue')] = j
                             \/ /\ hybridQueue' = hybridQueue
                                /\ \E v \in Slots :
                                      /\ workers'[v].kind = "hybrid"
                                      /\ workers'[v].currentJobId = j.jobId]_vars

\* Two jobs have fallen back, one after a failed last retry and one after an
\* empty body or a non-2xx status; none is counted as saved or failed.
FellBackAfterBadFetch ==
    /\ hist.unavailable = 2
    /\ "network" \in hist.unavailableAfter
    /\ hist.unavailableAfter \ {"network"} # {}
    /\ options.retries = 1
    /\ failures = << >>
    /\ (Len(hybridQueue) > 0 \/ \E v \in Slots : workers[v].kind = "hybrid"
                                                  /\ workers[v].currentJobId # 0)

\* C22: the jobs waiting in markdownQueue and hybridQueue together never
\* number more than maxPages.
QueuesWithinMaxPages == Len(markdownQueue) + Len(hybridQueue) <= options.maxPages

\* What enqueueLinks keeps: right after it has added a link, savedCount plus
\* the jobs waiting is at most maxPages.
EnqueueWithinMaxPages ==
    [][nextJobId' > nextJobId =>
          savedCount' + Len(markdownQueue') + Len(hybridQueue') <= options.maxPages]_vars

\* The links a call of extractLinks* has returned.
Reported == SeqToSet(hist.result)

\* C23: every link a worker reports (and so every job enqueueLinks creates
\* from it) is on the seed's origin, has a pathname inside the scope, does not
\* end in a blocked extension (images, fonts, binaries, .css, .js), carries no
\* hash and no query, and is reported once.
LinksInScopeNotBlocked ==
    /\ \A link \in Reported :
          /\ link.origin = "site"
          /\ isPathInScope(link.pathname, hist.scope)
          /\ isHtmlCandidateNoAssets(link.pathname)
          /\ ~link.search /\ ~link.hash
    /\ Cardinality(Reported) = Len(hist.result)

\* Every reported link is on the seed's origin, inside the scope, passes
\* isHtmlCandidate, carries no hash and no query, and is reported once.
LinksInScopeCandidates ==
    /\ \A link \in Reported :
          /\ link.origin = "site"
          /\ isPathInScope(link.pathname, hist.scope)
          /\ isHtmlCandidate(link.pathname)
          /\ ~link.search /\ ~link.hash
    /\ Cardinality(Reported) = Len(hist.result)

\* C24: with options.render false no hybrid worker reports htmlInsufficient,
\* keeps a job for a render or renders one, and no renderWithPlaywright
\* command is on its way to a worker.
NoRenderWhenDisabled ==
    ~options.render =>
        \A w \in Slots :
            /\ wk[w].pendingRenderJob = NoJob
            /\ wk[w].renderJob = NoJob
            /\ \A i \in 1..Len(outbox[w]) : outbox[w][i].type # "htmlInsufficient"
            /\ \A i \in 1..Len(inbox[w]) : inbox[w][i].type # "renderWithPlaywright"

\* C25: after writeOutputs page.md holds the page; .llms.md and llms-full.md
\* hold the new text when overwriteLlms is set or the file did not exist, and
\* are as they were otherwise.
LlmsWrittenWhenMissing ==
    (mainPc = "writeOutputs" /\ hist.returned) =>
        /\ hist.files["page.md"] = hist.result.markdown
        /\ \A f \in {".llms.md", "llms-full.md"} :
              LET text == IF f = ".llms.md" THEN hist.result.llmsMarkdown
                          ELSE hist.result.llmsFullMarkdown
              IN  IF options.overwriteLlms \/ ~fileExists(hist.before, f)
                  THEN hist.files[f] = text
                  ELSE hist.files[f] = hist.before[f]

\* What writeOutputs does: page.md is always written, the two llms files
\* exactly when overwriteLlms is set.
LlmsWrittenOnOverwrite ==
    (mainPc = "writeOutputs" /\ hist.returned) =>
        /\ hist.files["page.md"] = hist.result.markdown
        /\ \A f \in {".llms.md", "llms-full.md"} :
              LET text == IF f = ".llms.md" THEN hist.result.llmsMarkdown
                          ELSE hist.result.llmsFullMarkdown
              IN  IF options.overwriteLlms
                  THEN hist.files[f] = text
                  ELSE hist.files[f] = hist.before[f]

\* C30: a pathname is no HTML candidate exactly when it ends, in any case of
\* letters, in an extension of the blocked set, css and js among them.
CssAndJsBlocked ==
    (mainPc = "isHtmlCandidate" /\ hist.returned) =>
        (~hist.result <=>
            \E ext \in BLOCKED_EXTENSIONS_REGEX \cup {"css", "js"} :
                /\ Len(hist.pathname) >= 2
                /\ hist.pathname[Len(hist.pathname) - 1] = "."
                /\ toLowerCase(hist.pathname[Len(hist.pathname)]) = ext)

\* The same with the extensions BLOCKED_EXTENSIONS_REGEX has.
BlockedExtensionsRefused ==
    (mainPc = "isHtmlCandidate" /\ hist.returned) =>
        (~hist.result <=>
            \E ext \in BLOCKED_EXTENSIONS_REGEX :
                /\ Len(hist.pathname) >= 2
                /\ hist.pathname[Len(hist.pathname) - 1] = "."
                /\ toLowerCase(hist.pathname[Len(hist.pathname)]) = ext)

\* C31, as stated: the companion URL has no hash and the query of the
\* target; its path is /llms.txt for the path "/", the path itself when that
\* ends in .md or .txt, the path without its last "/" and with .md behind it
\* when it ends in "/", and the path with .md behind it otherwise.
CompanionDropsOneSlash ==
    (mainPc = "buildMarkdownCandidateUrl" /\ hist.returned) =>
        LET path == hist.targetUrl.pathname
        IN /\ ~hist.result.hash
           /\ hist.result.search = hist.targetUrl.search
           /\ hist.result.pathname =
                 IF path = << "/" >> THEN LlmsTxt
                 ELSE IF endsWithExtension(path, "md") \/ endsWithExtension(path, "txt")
                 THEN path
                 ELSE IF path[Len(path)] = "/"
                 THEN SubSeq(path, 1, Len(path) - 1) \o << ".", "md" >>
                 ELSE path \o << ".", "md" >>

\* C31, amended: a path ending in "/" loses every "/" at its end; what is left
\* becomes /llms.txt when it is empty, stays as it is when it ends in .md, and
\* gets .md behind it otherwise.
CompanionDropsSlashes ==
    (mainPc = "buildMarkdownCandidateUrl" /\ hist.returned) =>
        LET path == hist.targetUrl.pathname
            slashless == CHOOSE n \in 0..Len(path) :
                             /\ \A i \in (n + 1)..Len(path) : path[i] = "/"
                             /\ n = 0 \/ path[n] # "/"
            rest == SubSeq(path, 1, slashless)
        IN /\ ~hist.result.hash
           /\ hist.result.search = hist.targetUrl.search
           /\ hist.result.pathname =
                 IF endsWithExtension(path, "md") \/ endsWithExtension(path, "txt")
                 THEN path
                 ELSE IF rest = << >> THEN LlmsTxt
                 ELSE IF endsWithExtension(rest, "md") THEN rest
                 ELSE rest \o << ".", "md" >>

\* A path that ends in .md and a slash came back without the slash, the hash
\* of the target gone.
CompanionOfMdSlash ==
    /\ mainPc = "buildMarkdownCandidateUrl"
    /\ hist.returned
    /\ hist.targetUrl.hash
    /\ hist.targetUrl.pathname = << "/", "a", ".", "md", "/" >>
    /\ hist.result.pathname = << "/", "a", ".", "md" >>

\* The workers that will still post the terminal outcome of a job, or have
\* posted it and the scheduler has not handled it: a running thread that holds
\* a job, keeps or performs a render, or has an assign waiting in its inbox,
\* and any worker with an outcome in its outbox.
Reporting ==
    {w \in Slots :
        \/ /\ wk[w].phase # "exited"
           /\ \/ wk[w].activeJob # NoJob
              \/ renderHeld(wk[w]) # NoJob
              \/ jobsSent(w) # {}
        \/ \E i \in 1..Len(outbox[w]) :
              outbox[w][i].type \in {"completed", "failed", "markdownUnavailable"}}

\* C32: inFlightCount is the number of assigned jobs whose terminal outcome a
\* live worker will still post (or has posted and the scheduler has yet to
\* handle).
InFlightAccounted == inFlightCount = Cardinality(Reporting)

\* The workers of a kind that the scheduler has marked idle and not told to
\* stop.
IdleOf(kind) ==
    {w \in Slots : /\ workers[w].present
                   /\ workers[w].kind = kind
                   /\ workers[w].idle
                   /\ ~workers[w].stopping}

\* C33: between two handlers no queue holds a job while a worker of its kind
\* is idle and savedCount + inFlightCount is below maxPages.
WorkConserving ==
    savedCount + inFlightCount < options.maxPages =>
        /\ Len(markdownQueue) > 0 => IdleOf("markdown") = {}
        /\ Len(hybridQueue) > 0 => IdleOf("hybrid") = {}

\* The positions of the assign messages on their way to worker w.
AssignsTo(w) == {i \in 1..Len(inbox[w]) : inbox[w][i].type = "assign"}

\* C34: a worker that an assign is on its way to has been started, holds no
\* job (none active, none kept for a render or being rendered), and is sent
\* no second assign; so every assign a worker takes becomes its active job.
AssignOnlyToFreeWorker ==
    /\ [](\A w \in Slots :
            AssignsTo(w) # {} =>
                /\ wk[w].phase = "running"
                /\ wk[w].activeJob = NoJob
                /\ renderHeld(wk[w]) = NoJob
                /\ Cardinality(AssignsTo(w)) = 1)
    /\ [][\A w \in Slots :
             (/\ inbox[w] # << >>
              /\ Head(inbox[w]).type = "assign"
              /\ wk[w].phase # "exited"
              /\ wk'[w].phase # "exited"
              /\ inbox'[w] = Tail(inbox[w]))
                 => wk'[w].activeJob = Head(inbox[w]).job]_vars

\* A hybrid worker that sat idle is sent a job that fell back from a markdown
\* worker, while another job is being fetched.
AssignToIdleHybrid ==
    \E w \in Slots :
        /\ workers[w].present
        /\ workers[w].kind = "hybrid"
        /\ AssignsTo(w) # {}
        /\ outbox[w] = << >>
        /\ hist.fellBack # {}
        /\ \E v \in Slots \ {w} : wk[v].stage = "fetch"

\* The workers whose thread is processing a job.
Processing == {w \in Slots : wk[w].activeJob # NoJob \/ renderHeld(wk[w]) # NoJob}

\* C35: in a crawl and in a scrape alike, isDone turns true with
\* inFlightCount = 0; from then on no assign is posted, and stopAll runs with
\* no worker processing a job.
DoneWithNothingInFlight ==
    /\ [][(~isDone /\ isDone') => inFlightCount' = 0]_vars
    /\ [][isDone =>
             /\ hist'.assignedMarkdown = hist.assignedMarkdown
             /\ hist'.assignedHybrid = hist.assignedHybrid
             /\ \A w \in Slots : AssignsTo(w) = {} /\ AssignsTo(w)' = {}]_vars
    /\ [](mainPc \in {"stopping", "finished"} => Processing = {})

\* stopAll waits for its workers after a scrape of three URLs, one of which
\* fell back to the hybrid worker.
StopAllAfterScrape ==
    /\ ScrapeMode
    /\ mainPc = "stopping"
    /\ processedCount = 3
    /\ hist.fellBack # {}
    /\ stopResolvers # {}

\* The same after a crawl that saved two pages and gave one up.
StopAllAfterCrawl ==
    /\ ~ScrapeMode
    /\ mainPc = "stopping"
    /\ savedCount >= 2
    /\ Len(failures) > 0
    /\ stopResolvers # {}

\* The tick's ScaleState before and after rebalanceKinds.
ScaleStateOf(metrics) ==
    LET counts == getPoolCounts(Sched)
        pending == [pendingMarkdown |-> Len(markdownQueue),
                    pendingHybrid |-> Len(hybridQueue)]
    IN createScaleState(Sched, counts,
                        computeTargets(pending, counts, metrics, maxTotalWorkers))

Rebalanced(metrics) == rebalanceKinds(ScaleStateOf(metrics))

\* The workers a tick's step marks as stopping, and those it spawns.
StoppedBy(T, kind) ==
    {w \in Slots : /\ workers[w].present /\ workers[w].kind = kind
                   /\ ~workers[w].stopping /\ T.S.workers[w].stopping}

SpawnedBy(T, kind) ==
    {w \in Slots : /\ ~workers[w].present
                   /\ T.S.workers[w].present /\ T.S.workers[w].kind = kind}

AllMetrics == MetricsChoices \cup {SlowSiteMetrics}

\* A worker that holds nothing and is owed nothing.
Free(w) ==
    /\ workers[w].present
    /\ workers[w].idle
    /\ ~workers[w].stopping
    /\ workers[w].currentJobId = 0
    /\ wk[w].activeJob = NoJob
    /\ renderHeld(wk[w]) = NoJob
    /\ AssignsTo(w) = {}

\* C36: a tick of the autoscaler posts stop only to workers that are idle,
\* not stopping and without a job, in the pool's books and in the thread; and
\* rebalancing stops as many workers of one kind as it spawns of the other.
AutoscalerStopsIdleOnly ==
    /\ [][(mainPc = "running" /\ mainPc' = "running") =>
             \A w \in Slots :
                 (/\ Len(inbox'[w]) > Len(inbox[w])
                  /\ inbox'[w][Len(inbox'[w])].type = "stop") => Free(w)]_vars
    /\ [](\A m \in AllMetrics :
            LET T == Rebalanced(m)
                n == MAX_STOP_PER_TICK - T.stopBudget
            IN (mainPc = "running" /\ ~isDone /\ T.ok) =>
                 /\ MAX_SPAWN_PER_TICK - T.spawnBudget = n
                 /\ \A w \in StoppedBy(T, "markdown") \cup StoppedBy(T, "hybrid") : Free(w)
                 /\ \/ n = 0 /\ T.S.workers = workers
                    \/ /\ Cardinality(StoppedBy(T, "markdown")) = n
                       /\ Cardinality(SpawnedBy(T, "hybrid")) = n
                       /\ StoppedBy(T, "hybrid") = {} /\ SpawnedBy(T, "markdown") = {}
                    \/ /\ Cardinality(StoppedBy(T, "hybrid")) = n
                       /\ Cardinality(SpawnedBy(T, "markdown")) = n
                       /\ StoppedBy(T, "markdown") = {} /\ SpawnedBy(T, "hybrid") = {})

\* A tick is about to rebalance: it will stop an idle worker and spawn one of
\* the other kind.
RebalanceDue ==
    /\ mainPc = "running"
    /\ ~isDone
    /\ \E m \in AllMetrics : Rebalanced(m).ok /\ Rebalanced(m).stopBudget < MAX_STOP_PER_TICK

\* A tick has rebalanced: a worker of the pool has been sent stop while the
\* crawl runs, and a worker of the other kind has just been spawned.
RebalanceDone ==
    /\ mainPc = "running"
    /\ \E w, v \in Slots :
          /\ workers[w].present /\ workers[w].stopping
          /\ inbox[w] # << >> /\ inbox[w][Len(inbox[w])].type = "stop"
          /\ workers[v].present /\ workers[v].kind # workers[w].kind
          /\ wk[v].phase = "new"

\* C37: computeTargets returns desiredTotal within MIN_TOTAL_WORKERS and
\* maxTotalWorkers, and MIN_TOTAL_WORKERS when nothing is pending or in flight;
\* each kind gets at least one worker and the two kinds add up to desiredTotal.
TargetsWithinBounds ==
    (mainPc = "computeTargets" /\ hist.returned) =>
        LET t == hist.result
            work == hist.pending.pendingMarkdown + hist.pending.pendingHybrid
                    + hist.counts.inFlightMarkdown + hist.counts.inFlightHybrid
        IN /\ MIN_TOTAL_WORKERS <= t.desiredTotal
           /\ t.desiredTotal <= maxTotalWorkers
           /\ work = 0 => t.desiredTotal = MIN_TOTAL_WORKERS
           /\ t.desiredMarkdown >= 1
           /\ t.desiredHybrid >= 1
           /\ t.desiredMarkdown + t.desiredHybrid = t.desiredTotal

\* Slow pages fill the pool: the targets take every worker concurrency
\* allows, several of each kind.
TargetsAtMaximum ==
    /\ mainPc = "computeTargets"
    /\ hist.returned
    /\ options.concurrency >= 5
    /\ hist.result.desiredTotal = maxTotalWorkers
    /\ hist.result.desiredMarkdown >= 2
    /\ hist.result.desiredHybrid >= 2

\* The pages of the failure lines.
FailedPages == {failures[i].page : i \in 1..Len(failures)}

\* C38: handling a failed message takes one off inFlightCount, appends the
\* job's URL to failures, leaves savedCount and both queues as they were, drops
\* the job from jobMap and posts nothing; a page of a failure line is in no
\* queue, on no worker, and is not assigned again.
FailedJobGivenUp ==
    /\ [][\A w \in Slots :
             (/\ outbox[w] # << >>
              /\ Head(outbox[w]).type = "failed"
              /\ outbox'[w] = Tail(outbox[w]))
                 => /\ inFlightCount' = inFlightCount - 1
                    /\ failures' = Append(failures, Head(outbox[w]).url)
                    /\ savedCount' = savedCount
                    /\ markdownQueue' = markdownQueue
                    /\ hybridQueue' = hybridQueue
                    /\ \A j \in jobMap' : j.jobId # Head(outbox[w]).jobId
                    /\ inbox' = inbox]_vars
    /\ [][\A p \in FailedPages :
             /\ hist'.assignedMarkdown[p] = hist.assignedMarkdown[p]
             /\ hist'.assignedHybrid[p] = hist.assignedHybrid[p]]_vars
    /\ [](\A p \in FailedPages :
            /\ \A j \in jobMap : j.url.page # p
            /\ \A i \in 1..Len(markdownQueue) : markdownQueue[i].url.page # p
            /\ \A i \in 1..Len(hybridQueue) : hybridQueue[i].url.page # p
            /\ \A w \in Slots :
                  /\ wk[w].activeJob # NoJob => wk[w].activeJob.url.page # p
                  /\ \A i \in AssignsTo(w) : inbox[w][i].job.url.page # p)

\* A page has failed after others were saved, while a job waits in
\* markdownQueue.
FailedWhileQueued ==
    /\ Len(failures) > 0
    /\ Len(markdownQueue) > 0
    /\ savedCount > 0

\* The renderWithPlaywright messages on their way to worker w.
RendersTo(w) == {i \in 1..Len(inbox[w]) : inbox[w][i].type = "renderWithPlaywright"}

\* C39: htmlInsufficient is posted at most once for a page, and at most one
\* renderWithPlaywright is on its way to a worker; the step that ends a render
\* posts completed or failed for the rendered job, then asks for the next
\* job, and leaves the worker without a job.
EscalatedAtMostOnce ==
    /\ [](\A p \in Pages : hist.insufficient[p] <= 1)
    /\ [](\A w \in Slots : Cardinality(RendersTo(w)) <= 1)
    /\ [][\A w \in Slots :
             (wk[w].renderJob # NoJob /\ wk'[w].renderJob = NoJob) =>
                 /\ Len(outbox'[w]) = Len(outbox[w]) + 2
                 /\ firstPosted(w).type \in {"completed", "failed"}
                 /\ firstPosted(w).jobId = wk[w].renderJob.jobId
                 /\ outbox'[w][Len(outbox'[w])].type \in {"requestTarget", "stopped"}
                 /\ wk'[w].pendingRenderJob = NoJob
                 /\ wk'[w].activeJob = NoJob]_vars

\* Two pages went to a render; one came out of it saved, the other failed.
RenderedBothWays ==
    \E p, q \in Pages :
        /\ hist.insufficient[p] = 1
        /\ hist.insufficient[q] = 1
        /\ hist.written[p] = 1
        /\ q \in FailedPages

\* C40: two URLs that normalizeForQueue keeps apart (so that one run can
\* save both) get different pagePath values.
DistinctPagePaths ==
    (/\ mainPc = "buildOutputPaths"
     /\ hist.returned
     /\ normalizeForQueueString(hist.first) # normalizeForQueueString(hist.second))
        => hist.pagePaths[1] # hist.pagePaths[2]

\* C29, as stated: a pathname is in scope exactly when the scope is "/" or
\* the pathname is the scope, the scope with "/" behind it, or starts with
\* the scope and "/".
InScopeIffUnderScope ==
    (mainPc = "isPathInScope" /\ hist.returned) =>
        (hist.result <=>
            \/ hist.scopePath = << "/" >>
            \/ hist.pathname = hist.scopePath
            \/ hist.pathname = hist.scopePath \o << "/" >>
            \/ startsWith(hist.pathname, hist.scopePath \o << "/" >>))

\* The scope without one trailing "/" ("/" when nothing is left).
BareScope(scopePath) ==
    IF Len(scopePath) > 1 /\ scopePath[Len(scopePath)] = "/"
    THEN SubSeq(scopePath, 1, Len(scopePath) - 1)
    ELSE scopePath

\* C29, amended: a pathname is in scope exactly when the scope without one
\* trailing "/" is "/", or is the pathname, or with "/" behind it is a prefix
\* of the pathname.
InScopeIffUnderBareScope ==
    (mainPc = "isPathInScope" /\ hist.returned) =>
        (hist.result <=>
            \/ BareScope(hist.scopePath) = << "/" >>
            \/ hist.pathname = BareScope(hist.scopePath)
            \/ startsWith(hist.pathname, BareScope(hist.scopePath) \o << "/" >>))

\* A scope that ends in "/" held the pathname that is the scope without it,
\* and one that held a page below it.
BareScopeHeld ==
    /\ mainPc = "isPathInScope"
    /\ hist.returned
    /\ hist.result
    /\ hist.scopePath = << "/", "a", "/" >>
    /\ hist.pathname \in { << "/", "a" >>, << "/", "a", "/", "b" >> }

\* The rules of a set that are a prefix of the pathname.
Matching(rules, pathname) == {r \in rules : startsWith(pathname, r)}

\* C28: a path is allowed exactly when every matching Disallow rule has a
\* matching Allow rule at least as long (none matching: allowed; tie:
\* allowed); an Allow rule added that matches and is longer than every
\* matching Allow rule never forbids a path that was allowed.
LongestRuleWins ==
    (mainPc = "isAllowed" /\ hist.returned) =>
        LET allows == Matching(hist.policy.allow, hist.pathname)
            disallows == Matching(hist.policy.disallow, hist.pathname)
        IN /\ hist.result <=>
                  \A d \in disallows : \E a \in allows : Len(a) >= Len(d)
           /\ (/\ hist.result
               /\ startsWith(hist.pathname, hist.extra)
               /\ \A a \in allows : Len(hist.extra) > Len(a)) => hist.withExtra

\* A tie of a matching Allow and a matching Disallow rule was allowed, and
\* stayed allowed with a longer matching Allow rule added.
TieAllowed ==
    /\ mainPc = "isAllowed"
    /\ hist.returned
    /\ hist.result
    /\ hist.withExtra
    /\ Matching(hist.policy.disallow, hist.pathname) # {}
    /\ LongestMatch(hist.policy.allow, hist.pathname)
           = LongestMatch(hist.policy.disallow, hist.pathname)
    /\ startsWith(hist.pathname, hist.extra)
    /\ Len(hist.extra) > LongestMatch(hist.policy.allow, hist.pathname)

\* The target of the href the last pass met: the URL it resolves to, moved
\* under the scope where applyScopePathPrefix does so, or NullUrl.
LastTarget ==
    LET parsed == newURL(hist.previous.href, hist.call.currentUrl)
        initial == normalizeHrefTarget(parsed)
        scoped == applyScopePathPrefix(parsed, initial, hist.call.scopePathPrefix)
    IN IF scoped = NullUrl THEN initial ELSE scoped

\* C26: a link with a target is rewritten exactly when the normalized target
\* is in the known set or in the link hints or the target's page.md is on
\* disk; the new href then leads from the directory of the current page to
\* that page.md by the shortest relative path, and has a fragment exactly
\* when the old href had one.
RewrittenIffTargetExists ==
    (mainPc = "rewriteMarkdownContent" /\ hist.passes >= 1 /\ LastTarget # NullUrl) =>
        LET c == hist.call
            old == hist.previous.href
            new == hist.markdown.href
            page == buildOutputPaths(LastTarget).pagePath
            dir == buildOutputPaths(c.currentUrl).dir
            exists == \/ stripped(LastTarget) \in c.known
                      \/ stripped(LastTarget) \in c.linkHints
                      \/ page \in DOMAIN c.disk
        IN /\ (hist.replacement # NullHref) <=> exists
           /\ ~exists => new = old
           /\ exists =>
                 /\ new = hist.replacement
                 /\ new.form = "relative"
                 /\ new.hash = old.hash
                 /\ new.up <= Len(dir)
                 /\ SubSeq(dir, 1, Len(dir) - new.up) \o new.names = page
                 /\ new.up > 0 => dir[Len(dir) - new.up + 1] # new.names[1]

\* A link whose target only the link hints hold was rewritten to a path that
\* climbs out of the current directory and keeps the fragment.
RewrittenByHint ==
    /\ mainPc = "rewriteMarkdownContent"
    /\ hist.passes = 1
    /\ LastTarget # NullUrl
    /\ stripped(LastTarget) \in hist.call.linkHints
    /\ stripped(LastTarget) \notin hist.call.known
    /\ buildOutputPaths(LastTarget).pagePath \notin DOMAIN hist.call.disk
    /\ hist.markdown.href.form = "relative"
    /\ hist.markdown.href.up > 0
    /\ hist.markdown.href.hash
    /\ hist.previous.href.form = "absolute"

\* C27: the rewriter run over its own output, with the same current URL,
\* known set and disk, returns that output.
RewriteIdempotent ==
    (mainPc = "rewriteMarkdownContent" /\ hist.passes = MaxPasses) =>
        hist.markdown = hist.previous

\* The markers in a text.
Markers(text) == Cardinality({i \in 1..Len(text) : text[i] = EXTERNAL_MARKER})

\* No page of the site that is known, hinted or on disk has a path segment
\* "page.md".
NoPageNamedPageMd(c) ==
    /\ \A u \in c.known \cup c.linkHints : "page.md" \notin SeqToSet(u.pathname)
    /\ \A path \in DOMAIN c.disk : "page_md" \notin SeqToSet(path)

\* The rewriter is idempotent on links whose text carries at most one marker
\* when no page is named page.md.
RewriteIdempotentOneMarker ==
    (/\ mainPc = "rewriteMarkdownContent"
     /\ hist.passes = MaxPasses
     /\ Markers(hist.input.text) <= 1
     /\ NoPageNamedPageMd(hist.call)) =>
        hist.markdown = hist.previous

\* C1: every fair crawl of a cycle-free site reaches isDone.
EventuallyDone == <>isDone

\* A job the scheduler counts in flight that no worker of the pool holds.
JobLost == \E j \in jobMap : Places(j) = 0

\* Every fair crawl reaches isDone or loses a job.
EventuallyDoneOrLost == <>(isDone \/ JobLost)

\* A worker has stopped with a job, and the job is left alone although
\* another markdown worker of the pool is idle.
LostJobLeftAlone ==
    /\ JobLost
    /\ inFlightCount >= 1
    /\ \E w \in Slots : workers[w].present /\ workers[w].idle
                         /\ workers[w].kind = "markdown"

====
